---- MODULE Spec2Model ----
(***************************************************************************)
(* Preemptive execution core of the kernel: the timer-driven thread        *)
(* scheduler (task/scheduler.rs), the unified process table                *)
(* (task/process.rs), the cooperative executor that runs as the idle       *)
(* context (task/executor.rs) and the timer handler (interrupts.rs).       *)
(*                                                                         *)
(* One CPU.  A context is the code running on one stack: context Idle is   *)
(* the boot/executor stack, context p (p >= 1) is the stack of the thread  *)
(* with pid p.  `cpu` is the stack the CPU executes on, `rflagsIF` the     *)
(* flag.  Every step is taken by the context `cpu` or by the timer ISR.    *)
(* Code between two accesses to shared state is one step; a critical       *)
(* section is three steps (mask, lock, body+unlock) so that the states in  *)
(* which a lock is held are visible.                                       *)
(***************************************************************************)
EXTENDS Integers, Sequences, FiniteSets, TLC

\* ---- bounds of the model ----
MaxPid == 4
MaxTick == 3
MaxQueue == 1
MaxProcTick == 2
MaxSpawned == 3
MaxProbeQueue == 2
MaxKeys == 3
MaxCalls == 3
RingSize == 2
MaxFrame == 4
MaxRegions == 2
HeapPages == 2
MaxTables == 1
MaxNext == 5
MaxHeapCalls == 2
PageSize == 4096
MaxKbdId == 2
MaxStackPages == 2
MaxDepth == 4

\* ---- inputs ----
SleepArgs == {0, 10, 15}

Idle == 0
Crashed == 0 - 1
NullFrame == 0 - 1
Free == 0 - 1
NotKilled == 0 - 1
\* Stages of cancel: not followed; kill_process not called; returned; the
\* next executor iteration begun; that iteration complete.
Untracked == 0 - 1
NotAsked == 0
Asked == 1
Iterating == 2
Iterated == 3
Pids == 1..MaxPid
Ctx == 0..MaxPid
LockNames == {"SCHEDULER", "PROCESS_TABLE", "WAKE_QUEUE", "KILL_QUEUE", "TASK_SPAWN_QUEUE",
              "SCANCODE_QUEUE", "KEYBOARD_WAKER"}

\* The futures of the test program: one that completes on its first poll, one
\* that awaits yield_now() once and then completes, one that stays pending.
Kinds == {"ready", "yield", "pend"}
HarnessOff == [on |-> FALSE, calls |-> 0, due |-> {}, mark |-> 0, polled |-> <<>>,
               kind |-> [p \in Pids |-> "none"], yielded |-> {}]

VARIABLES
  cpu,               \* stack the CPU executes on (Idle, a thread pid, or Crashed)
  rflagsIF,          \* interrupt flag: 1 enabled, 0 masked
  ctx,               \* per context: program position and locals
  polling,           \* task_id local of poll_ready_tasks (0 outside a poll)
  lock,              \* spin::Mutex state: holder of each lock, or Free
  SCHEDULER,         \* Option<Scheduler>
  SCHEDULER_ENABLED,
  TICK_COUNT,
  PROCESS_TABLE,     \* Option<ProcessTable>
  NEXT_ID,           \* the TaskId counter
  heap,              \* per stack allocation: allocated?, number of dealloc calls
  tasks, ready_queue, waker_cache,           \* Executor
  WAKE_QUEUE, KILL_QUEUE, TASK_SPAWN_QUEUE,
  issued,            \* history: every id handed out, in order, with its kind
  SCANCODE_QUEUE,    \* ScancodeQueue: buf, read, write, count
  KEYBOARD_WAKER,    \* Option<Waker>: the task id the waker wakes
  scancodes,         \* history: number of keyboard interrupts taken
  fifo,              \* reference: the bounded queue the ring is compared with
  popped,            \* history: what ScancodeQueue::pop returned last
  pic,               \* history: what the last interrupt handler did, in order
  frame_allocator,   \* BootInfoFrameAllocator: memory_regions, next
  frames,            \* history: what allocate_frame returned, call by call
  mapper,            \* page tables: heap pages mapped, page tables still to create
  ALLOCATOR,         \* LockedHeap: number of init calls
  heap_ret,          \* history: what init_heap returned, call by call
  TSS,               \* the task state segment the task register points at, if loaded
  IDT,               \* the interrupt descriptor table the CPU uses, if loaded
  fault,             \* the boot context of the fault path: position, rsp, the
                     \* frames called, the lowest page of its stack
  killed,            \* history: per thread, the tick count when another context's
                     \* kill_thread on it returned true (NotKilled before)
  cancel,            \* history: per task, how far a kill_process on it has got
  harness            \* the test program around run_until_idle: its futures, its
                     \* calls, the log of polls and where in it the iteration began

vars == <<cpu, rflagsIF, ctx, polling, lock, SCHEDULER, SCHEDULER_ENABLED, TICK_COUNT,
          PROCESS_TABLE, NEXT_ID, heap, tasks, ready_queue, waker_cache,
          WAKE_QUEUE, KILL_QUEUE, TASK_SPAWN_QUEUE, issued,
          SCANCODE_QUEUE, KEYBOARD_WAKER, scancodes, fifo, popped, pic,
          frame_allocator, frames, mapper, ALLOCATOR, heap_ret,
          TSS, IDT, fault, killed, cancel, harness>>
ringVars == <<fifo, popped>>
kbdVars == <<SCANCODE_QUEUE, KEYBOARD_WAKER, scancodes, ringVars>>
memVars == <<frame_allocator, frames, mapper, ALLOCATOR, heap_ret>>
faultVars == <<TSS, IDT, fault>>
hwVars == <<pic, memVars, faultVars>>

\* Option<T>: None is the empty sequence, Some(x) the one-element sequence.
None == <<>>
Some(x) == <<x>>
IsSome(o) == o # <<>>
Unwrap(o) == o[1]

\* ---- ThreadState ----
Ready == [tag |-> "Ready", wake |-> 0]
Running == [tag |-> "Running", wake |-> 0]
Sleeping(w) == [tag |-> "Sleeping", wake |-> w]
Terminated == [tag |-> "Terminated", wake |-> 0]

Thread(pid, state, stack_bottom, saved_frame) ==
  [pid |-> pid, state |-> state, stack_bottom |-> stack_bottom, saved_frame |-> saved_frame]

Scheduler(threads, current, idle_frame, deferred_dealloc) ==
  [threads |-> threads, current |-> current, idle_frame |-> idle_frame,
   deferred_dealloc |-> deferred_dealloc]

\* ---- Scheduler::schedule ----
\* Mutant of Walk: a sleeper is woken only after its wake tick has passed.
RECURSIVE WalkLateWake(_, _, _, _, _)
WalkLateWake(q, n, current_tick, idle_frame, freed) ==
  IF n = 0 \/ q = <<>>
    THEN [threads |-> q, current |-> None, frame |-> idle_frame, freed |-> freed]
    ELSE LET thread == Head(q)
             rest == Tail(q)
         IN IF thread.state = Terminated
              THEN WalkLateWake(rest, n - 1, current_tick, idle_frame,
                                Append(freed, thread.stack_bottom))
              ELSE LET woken == IF thread.state.tag = "Sleeping"
                                   /\ current_tick > thread.state.wake
                                  THEN [thread EXCEPT !.state = Ready]
                                  ELSE thread
                   IN IF woken.state = Ready
                        THEN [threads |-> rest,
                              current |-> Some([woken EXCEPT !.state = Running]),
                              frame |-> woken.saved_frame,
                              freed |-> freed]
                        ELSE WalkLateWake(Append(rest, woken), n - 1, current_tick,
                                          idle_frame, freed)

\* Mutant of Walk: the queue is walked from its tail.
RECURSIVE WalkFromTail(_, _, _, _, _)
WalkFromTail(q, n, current_tick, idle_frame, freed) ==
  IF n = 0 \/ q = <<>>
    THEN [threads |-> q, current |-> None, frame |-> idle_frame, freed |-> freed]
    ELSE LET thread == q[Len(q)]
             rest == SubSeq(q, 1, Len(q) - 1)
         IN IF thread.state = Terminated
              THEN WalkFromTail(rest, n - 1, current_tick, idle_frame,
                                Append(freed, thread.stack_bottom))
              ELSE LET woken == IF thread.state.tag = "Sleeping"
                                   /\ current_tick >= thread.state.wake
                                  THEN [thread EXCEPT !.state = Ready]
                                  ELSE thread
                   IN IF woken.state = Ready
                        THEN [threads |-> rest,
                              current |-> Some([woken EXCEPT !.state = Running]),
                              frame |-> woken.saved_frame,
                              freed |-> freed]
                        ELSE WalkFromTail(<<woken>> \o rest, n - 1, current_tick,
                                          idle_frame, freed)

\* The queue walk: at most n iterations over q; `freed` collects the stacks
\* handed to dealloc_stack, in call order.
RECURSIVE Walk(_, _, _, _, _)
Walk(q, n, current_tick, idle_frame, freed) ==
  IF n = 0 \/ q = <<>>
    THEN [threads |-> q, current |-> None, frame |-> idle_frame, freed |-> freed]
    ELSE LET thread == Head(q)
             rest == Tail(q)
         IN IF thread.state = Terminated
              THEN Walk(rest, n - 1, current_tick, idle_frame,
                        Append(freed, thread.stack_bottom))
              ELSE LET woken == IF thread.state.tag = "Sleeping"
                                   /\ current_tick >= thread.state.wake
                                  THEN [thread EXCEPT !.state = Ready]
                                  ELSE thread
                   IN IF woken.state = Ready
                        THEN [threads |-> rest,
                              current |-> Some([woken EXCEPT !.state = Running]),
                              frame |-> woken.saved_frame,
                              freed |-> freed]
                        ELSE Walk(Append(rest, woken), n - 1, current_tick,
                                  idle_frame, freed)

\* Mutant of SaveOutgoing: the preempted thread keeps state Running.
SaveOutgoingNoDemote(s, current_frame) ==
  IF IsSome(s.current)
    THEN LET thread == [Unwrap(s.current) EXCEPT !.saved_frame = current_frame]
         IN IF thread.state = Terminated
              THEN [s EXCEPT !.current = None,
                             !.deferred_dealloc = Some(thread.stack_bottom)]
              ELSE [s EXCEPT !.current = None, !.threads = Append(s.threads, thread)]
    ELSE [s EXCEPT !.idle_frame = current_frame]

\* Mutant of SaveOutgoing: a Terminated outgoing thread goes back on the queue,
\* where the walk of the same call frees its stack.
SaveOutgoingNoDefer(s, current_frame) ==
  IF IsSome(s.current)
    THEN LET thread == [Unwrap(s.current) EXCEPT !.saved_frame = current_frame]
         IN IF thread.state.tag \in {"Terminated", "Sleeping"}
              THEN [s EXCEPT !.current = None, !.threads = Append(s.threads, thread)]
              ELSE [s EXCEPT !.current = None,
                             !.threads = Append(s.threads, [thread EXCEPT !.state = Ready])]
    ELSE [s EXCEPT !.idle_frame = current_frame]

\* Mutant of SaveOutgoing: the preempted thread goes to the head of the queue.
SaveOutgoingPushFront(s, current_frame) ==
  IF IsSome(s.current)
    THEN LET thread == [Unwrap(s.current) EXCEPT !.saved_frame = current_frame]
         IN CASE thread.state = Terminated ->
                   [s EXCEPT !.current = None,
                             !.deferred_dealloc = Some(thread.stack_bottom)]
              [] thread.state.tag = "Sleeping" ->
                   [s EXCEPT !.current = None,
                             !.threads = <<thread>> \o s.threads]
              [] OTHER ->
                   [s EXCEPT !.current = None,
                             !.threads = <<[thread EXCEPT !.state = Ready]>> \o s.threads]
    ELSE [s EXCEPT !.idle_frame = current_frame]

\* schedule with a Terminated outgoing thread both parked in the deferred slot
\* and put back in the queue.
SaveOutgoingDeferAndQueue(s, current_frame) ==
  IF IsSome(s.current)
    THEN LET thread == [Unwrap(s.current) EXCEPT !.saved_frame = current_frame]
         IN CASE thread.state = Terminated ->
                   [s EXCEPT !.current = None,
                             !.deferred_dealloc = Some(thread.stack_bottom),
                             !.threads = Append(s.threads, thread)]
              [] thread.state.tag = "Sleeping" ->
                   [s EXCEPT !.current = None, !.threads = Append(s.threads, thread)]
              [] OTHER ->
                   [s EXCEPT !.current = None,
                             !.threads = Append(s.threads, [thread EXCEPT !.state = Ready])]
    ELSE [s EXCEPT !.idle_frame = current_frame]

\* schedule without the record of the idle frame.
SaveOutgoingNoIdle(s, current_frame) ==
  IF IsSome(s.current)
    THEN LET thread == [Unwrap(s.current) EXCEPT !.saved_frame = current_frame]
         IN CASE thread.state = Terminated ->
                   [s EXCEPT !.current = None,
                             !.deferred_dealloc = Some(thread.stack_bottom)]
              [] thread.state.tag = "Sleeping" ->
                   [s EXCEPT !.current = None, !.threads = Append(s.threads, thread)]
              [] OTHER ->
                   [s EXCEPT !.current = None,
                             !.threads = Append(s.threads, [thread EXCEPT !.state = Ready])]
    ELSE s

\* schedule with a Sleeping outgoing thread put back as Ready.
SaveOutgoingWake(s, current_frame) ==
  IF IsSome(s.current)
    THEN LET thread == [Unwrap(s.current) EXCEPT !.saved_frame = current_frame]
         IN IF thread.state = Terminated
              THEN [s EXCEPT !.current = None,
                             !.deferred_dealloc = Some(thread.stack_bottom)]
              ELSE [s EXCEPT !.current = None,
                             !.threads = Append(s.threads, [thread EXCEPT !.state = Ready])]
    ELSE [s EXCEPT !.idle_frame = current_frame]

\* Saving the outgoing context (the match on self.current.take()).
SaveOutgoing(s, current_frame) ==
  IF IsSome(s.current)
    THEN LET thread == [Unwrap(s.current) EXCEPT !.saved_frame = current_frame]
         IN CASE thread.state = Terminated ->
                   [s EXCEPT !.current = None,
                             !.deferred_dealloc = Some(thread.stack_bottom)]
              [] thread.state.tag = "Sleeping" ->
                   [s EXCEPT !.current = None,
                             !.threads = Append(s.threads, thread)]
              [] OTHER ->
                   [s EXCEPT !.current = None,
                             !.threads = Append(s.threads, [thread EXCEPT !.state = Ready])]
    ELSE [s EXCEPT !.idle_frame = current_frame]

\* Result: the scheduler afterwards, the frame returned, the stacks freed.
schedule(s, current_frame, current_tick) ==
  LET drained == IF IsSome(s.deferred_dealloc) THEN <<Unwrap(s.deferred_dealloc)>> ELSE <<>>
      s1 == SaveOutgoing([s EXCEPT !.deferred_dealloc = None], current_frame)
      w == Walk(s1.threads, Len(s1.threads), current_tick, s1.idle_frame, drained)
  IN [sched |-> [s1 EXCEPT !.threads = w.threads, !.current = w.current],
      frame |-> w.frame,
      freed |-> w.freed]

\* Mutant of try_schedule: goes ahead without the lock.
try_scheduleNoTryLock(holder, s, current_frame, current_tick) ==
  IF ~IsSome(s) THEN None
  ELSE Some(schedule(Unwrap(s), current_frame, current_tick))

\* try_schedule: None when the lock is taken or the scheduler is not there.
try_schedule(holder, s, current_frame, current_tick) ==
  IF holder # Free THEN None
  ELSE IF ~IsSome(s) THEN None
  ELSE Some(schedule(Unwrap(s), current_frame, current_tick))

\* timer_tick_handler after the tick count and the end-of-interrupt:
\* the frame to resume, the scheduler afterwards, the stacks freed.
timer_tick_handler(enabled, holder, s, frame, current_tick) ==
  LET r == IF enabled THEN try_schedule(holder, s, frame, current_tick) ELSE None
  IN IF IsSome(r)
       THEN [frame |-> Unwrap(r).frame, sched |-> Some(Unwrap(r).sched),
             freed |-> Unwrap(r).freed, scheduled |-> TRUE]
       ELSE [frame |-> frame, sched |-> s, freed |-> <<>>, scheduled |-> FALSE]

\* dealloc_stack on each stack of a list, in order.
RECURSIVE dealloc_stack(_, _)
dealloc_stack(h, stacks) ==
  IF stacks = <<>> THEN h
  ELSE LET b == Head(stacks)
           n == h[b].frees
       IN dealloc_stack([h EXCEPT ![b].frees = IF n < 2 THEN n + 1 ELSE 2], Tail(stacks))

SeqToSet(s) == {s[i] : i \in 1..Len(s)}

\* ---- ProcessTable ----
Process(state, exit_code, is_thread) ==
  [state |-> state, exit_code |-> exit_code, is_thread |-> is_thread]

register(t, pid, is_thread) ==
  [p \in DOMAIN t \cup {pid} |->
     IF p = pid THEN Process("Ready", None, is_thread) ELSE t[p]]

\* Not in process.rs; the scheduler calls it: register with kind Thread.
register_thread(t, pid) == register(t, pid, TRUE)

\* Mutant of terminate: the state is set, the exit code is left as it was.
terminateNoCode(t, pid, exit_code) ==
  IF pid \in DOMAIN t THEN [t EXCEPT ![pid].state = "Terminated"] ELSE t

terminate(t, pid, exit_code) ==
  IF pid \in DOMAIN t
    THEN [t EXCEPT ![pid].state = "Terminated", ![pid].exit_code = Some(exit_code)]
    ELSE t

\* Mutant of set_state: no check for Terminated.
set_stateUnguarded(t, pid, state) ==
  IF pid \in DOMAIN t
    THEN [t EXCEPT ![pid].state = state]
    ELSE t

set_state(t, pid, state) ==
  IF pid \in DOMAIN t /\ t[pid].state # "Terminated"
    THEN [t EXCEPT ![pid].state = state]
    ELSE t

\* Table updates below are `if let Some(table) = table.as_mut() { .. }`.

\* ---- contexts, interrupt masking and locks ----
\* Critical sections entered through without_interrupts(|| X.lock() ...).
MaskedPcs == {"st_reg", "st_push", "ex_mark", "ex_tbl", "kt_mark", "kt_tbl", "kp_look",
              "kr_push", "sr_push", "sl_mark", "sl_tbl", "sl_rest", "wk_push",
              "ds_pop", "dk_pop", "dw_pop", "kb_pop1", "kb_pop2", "de_sched", "de_tbl"}
\* Critical sections entered through X.lock() alone.
UnmaskedPcs == {"sp_reg", "ds_reg", "dk_term", "dw_set", "pr_run",
                "pr_term", "pr_blk", "kb_reg"}

LockOf(pc) ==
  CASE pc \in {"st_push", "ex_mark", "kt_mark", "sl_mark", "de_sched"} -> "SCHEDULER"
    [] pc \in {"st_reg", "ex_tbl", "kt_tbl", "kp_look", "sl_tbl", "sl_rest", "sp_reg",
               "ds_reg", "dk_term", "dw_set", "pr_run", "pr_term", "pr_blk",
               "de_tbl"} -> "PROCESS_TABLE"
    [] pc \in {"wk_push", "dw_pop"} -> "WAKE_QUEUE"
    [] pc \in {"kr_push", "dk_pop"} -> "KILL_QUEUE"
    [] pc \in {"sr_push", "ds_pop"} -> "TASK_SPAWN_QUEUE"
    [] pc \in {"kb_pop1", "kb_pop2"} -> "SCANCODE_QUEUE"
    [] pc = "kb_reg" -> "KEYBOARD_WAKER"

StartPh(pc) == IF pc \in UnmaskedPcs THEN "lock" ELSE "pre"
At(pc, x, y) == [pc |-> pc, ph |-> StartPh(pc), x |-> x, y |-> y]
NoCtx == [pc |-> "none", ph |-> "pre", x |-> 0, y |-> 0]

\* Context c is executing at pc, not inside a critical section.
On(c, pc) == cpu = c /\ ctx[c].pc = pc /\ ctx[c].ph = "pre"
\* Context c is inside the critical section pc, holding its lock.
In(c, pc) == cpu = c /\ ctx[c].pc = pc /\ ctx[c].ph = "cs"
\* User code of context c: a thread's entry function, or a task's poll on Idle.
User(c) == On(c, "run")

Goto(c, pc, x, y) == ctx' = [ctx EXCEPT ![c] = At(pc, x, y)]
\* Leaving a critical section: MutexGuard drop, then without_interrupts
\* restores the flag it saved (interrupts were enabled on entry).
Unlock(c) ==
  /\ lock' = [lock EXCEPT ![LockOf(ctx[c].pc)] = Free]
  /\ rflagsIF' = IF ctx[c].pc \in MaskedPcs THEN 1 ELSE rflagsIF

\* without_interrupts(|| X.lock() ..) up to the lock: cli, then spin::Mutex::lock,
\* which returns with the lock held or spins (masked) while another holds it.
Enter(c, pc, x, y) ==
  /\ rflagsIF' = 0
  /\ IF lock[LockOf(pc)] = Free
       THEN /\ lock' = [lock EXCEPT ![LockOf(pc)] = c]
            /\ ctx' = [ctx EXCEPT ![c] = [pc |-> pc, ph |-> "cs", x |-> x, y |-> y]]
       ELSE /\ UNCHANGED lock
            /\ ctx' = [ctx EXCEPT ![c] = [pc |-> pc, ph |-> "spin", x |-> x, y |-> y]]

without_interrupts(c) ==
  /\ cpu = c /\ ctx[c].pc \in MaskedPcs /\ ctx[c].ph = "pre"
  /\ Enter(c, ctx[c].pc, ctx[c].x, ctx[c].y)
  /\ UNCHANGED <<cpu, polling, SCHEDULER, SCHEDULER_ENABLED, TICK_COUNT,
                 PROCESS_TABLE, NEXT_ID, heap, tasks, ready_queue, waker_cache,
                 WAKE_QUEUE, KILL_QUEUE, TASK_SPAWN_QUEUE, issued>>
  /\ UNCHANGED <<kbdVars, hwVars, killed, cancel, harness>>

\* X.lock() with interrupts enabled: returns once the lock is free.
MutexLock(c) ==
  /\ cpu = c /\ ctx[c].ph = "lock"
  /\ lock[LockOf(ctx[c].pc)] = Free
  /\ lock' = [lock EXCEPT ![LockOf(ctx[c].pc)] = c]
  /\ ctx' = [ctx EXCEPT ![c].ph = "cs"]
  /\ UNCHANGED <<cpu, rflagsIF, polling, SCHEDULER, SCHEDULER_ENABLED, TICK_COUNT,
                 PROCESS_TABLE, NEXT_ID, heap, tasks, ready_queue, waker_cache,
                 WAKE_QUEUE, KILL_QUEUE, TASK_SPAWN_QUEUE, issued>>
  /\ UNCHANGED <<kbdVars, hwVars, killed, cancel, harness>>

execVars == <<tasks, ready_queue, waker_cache, polling>>
queueVars == <<WAKE_QUEUE, KILL_QUEUE, TASK_SPAWN_QUEUE>>
idVars == <<NEXT_ID, issued>>
schedVars == <<SCHEDULER, SCHEDULER_ENABLED, heap>>

\* ---- process ids ----
\* TaskId::new: fetch_add(1) on the one static counter.
TaskId_new(next) == [id |-> next, next |-> next + 1]

\* Mutant of alloc_thread_id: reads the counter without advancing it.
alloc_thread_idLoadOnly(next) == [id |-> next, next |-> next]

alloc_thread_id(next) == TaskId_new(next)

\* ---- spawn_thread ----
\* Id, stack allocation and the synthetic frame on the new stack
\* (rip = thread_entry_wrapper, IF set).
spawn_thread(c) ==
  /\ User(c) /\ NEXT_ID <= MaxPid
  /\ LET r == alloc_thread_id(NEXT_ID)
     IN /\ NEXT_ID' = r.next
        /\ issued' = Append(issued, [pid |-> r.id, kind |-> "Thread"])
        /\ heap' = [heap EXCEPT ![r.id].alloc = TRUE]
        /\ ctx' = [ctx EXCEPT ![r.id] = At("run", 0, 0), ![c] = At("st_reg", r.id, 0)]
  /\ UNCHANGED <<cpu, rflagsIF, lock, SCHEDULER, SCHEDULER_ENABLED, TICK_COUNT,
                 PROCESS_TABLE, execVars, queueVars>>
  /\ UNCHANGED <<kbdVars, hwVars, killed, cancel, harness>>

spawn_thread_register(c) ==
  /\ In(c, "st_reg")
  /\ PROCESS_TABLE' = IF IsSome(PROCESS_TABLE)
                      THEN Some(register_thread(Unwrap(PROCESS_TABLE), ctx[c].x))
                      ELSE PROCESS_TABLE
  /\ Unlock(c) /\ Goto(c, "st_push", ctx[c].x, 0)
  /\ UNCHANGED <<cpu, TICK_COUNT, schedVars, idVars, execVars, queueVars>>
  /\ UNCHANGED <<kbdVars, hwVars, killed, cancel, harness>>

spawn_thread_push(c) ==
  /\ In(c, "st_push")
  /\ SCHEDULER' = IF IsSome(SCHEDULER)
                    THEN Some([Unwrap(SCHEDULER) EXCEPT !.threads =
                           Append(@, Thread(ctx[c].x, Ready, ctx[c].x, ctx[c].x))])
                    ELSE SCHEDULER
  /\ Unlock(c) /\ Goto(c, "run", 0, 0)
  /\ UNCHANGED <<cpu, TICK_COUNT, PROCESS_TABLE, SCHEDULER_ENABLED, heap, idVars,
                 execVars, queueVars>>
  /\ UNCHANGED <<kbdVars, hwVars, killed, cancel, harness>>

\* ---- exit_current_thread (also reached when the entry function returns,
\* through thread_entry_wrapper) ----
exit_current_thread(c) ==
  /\ User(c) /\ c # Idle
  /\ Enter(c, "ex_mark", 0, 0)
  /\ UNCHANGED <<cpu, TICK_COUNT, PROCESS_TABLE, schedVars, idVars,
                 execVars, queueVars>>
  /\ UNCHANGED <<kbdVars, hwVars, killed, cancel, harness>>

exit_mark(c) ==
  /\ In(c, "ex_mark")
  /\ IF IsSome(SCHEDULER) /\ IsSome(Unwrap(SCHEDULER).current)
       THEN /\ SCHEDULER' = Some([Unwrap(SCHEDULER) EXCEPT !.current[1].state = Terminated])
            /\ Goto(c, "ex_tbl", Unwrap(Unwrap(SCHEDULER).current).pid, 0)
       ELSE /\ UNCHANGED SCHEDULER
            /\ Goto(c, "ex_hlt", 0, 0)
  /\ Unlock(c)
  /\ UNCHANGED <<cpu, TICK_COUNT, PROCESS_TABLE, SCHEDULER_ENABLED, heap, idVars,
                 execVars, queueVars>>
  /\ UNCHANGED <<kbdVars, hwVars, killed, cancel, harness>>

exit_table(c) ==
  /\ In(c, "ex_tbl")
  /\ PROCESS_TABLE' = IF IsSome(PROCESS_TABLE)
                      THEN Some(terminate(Unwrap(PROCESS_TABLE), ctx[c].x, 0))
                      ELSE PROCESS_TABLE
  /\ Unlock(c) /\ Goto(c, "ex_hlt", ctx[c].x, 0)
  /\ UNCHANGED <<cpu, TICK_COUNT, schedVars, idVars, execVars, queueVars>>
  /\ UNCHANGED <<kbdVars, hwVars, killed, cancel, harness>>

\* ---- kill_thread ----
\* The marking closure: current first, then the first queue entry with the pid.
FirstIndex(q, pid) ==
  LET I == {i \in 1..Len(q) : q[i].pid = pid}
  IN IF I = {} THEN 0 ELSE CHOOSE i \in I : \A j \in I : i <= j

\* Mutant of KillMark: the current slot is not looked at.
KillMarkQueueOnly(s, pid) ==
  LET i == FirstIndex(s.threads, pid)
  IN IF i # 0
       THEN [found |-> TRUE, sched |-> [s EXCEPT !.threads[i].state = Terminated]]
       ELSE [found |-> FALSE, sched |-> s]

KillMark(s, pid) ==
  IF IsSome(s.current) /\ Unwrap(s.current).pid = pid
    THEN [found |-> TRUE, sched |-> [s EXCEPT !.current[1].state = Terminated]]
    ELSE LET i == FirstIndex(s.threads, pid)
         IN IF i # 0
              THEN [found |-> TRUE, sched |-> [s EXCEPT !.threads[i].state = Terminated]]
              ELSE [found |-> FALSE, sched |-> s]

kill_thread(c, pid) ==
  /\ User(c)
  /\ Enter(c, "kt_mark", pid, 0)
  /\ UNCHANGED <<cpu, TICK_COUNT, PROCESS_TABLE, schedVars, idVars,
                 execVars, queueVars>>
  /\ UNCHANGED <<kbdVars, hwVars, killed, cancel, harness>>

kill_thread_mark(c) ==
  /\ In(c, "kt_mark")
  /\ LET r == IF IsSome(SCHEDULER) THEN KillMark(Unwrap(SCHEDULER), ctx[c].x)
                                   ELSE [found |-> FALSE, sched |-> 0]
     IN IF r.found
          THEN SCHEDULER' = Some(r.sched) /\ Goto(c, "kt_tbl", ctx[c].x, 0)
          ELSE UNCHANGED SCHEDULER /\ Goto(c, "run", 0, 0)
  /\ Unlock(c)
  /\ UNCHANGED <<cpu, TICK_COUNT, PROCESS_TABLE, SCHEDULER_ENABLED, heap, idVars,
                 execVars, queueVars>>
  /\ UNCHANGED <<kbdVars, hwVars, killed, cancel, harness>>

kill_thread_table(c) ==
  /\ In(c, "kt_tbl")
  /\ PROCESS_TABLE' = IF IsSome(PROCESS_TABLE)
                      THEN Some(terminate(Unwrap(PROCESS_TABLE), ctx[c].x, 1))
                      ELSE PROCESS_TABLE
  /\ Unlock(c) /\ Goto(c, "run", 0, 0)
  /\ killed' = IF c # ctx[c].x /\ killed[ctx[c].x] = NotKilled
                 THEN [killed EXCEPT ![ctx[c].x] = TICK_COUNT]
                 ELSE killed
  /\ UNCHANGED <<cpu, TICK_COUNT, schedVars, idVars, execVars, queueVars>>
  /\ UNCHANGED <<kbdVars, hwVars, cancel, harness>>

\* ---- kill_process / kill_request ----
\* cancel once kill_process(pid) has returned, for the pid of a task.
AskedFor(pid) ==
  IF cancel[pid] = NotAsked /\ \E i \in 1..Len(issued) : issued[i] = [pid |-> pid, kind |-> "Task"]
    THEN [cancel EXCEPT ![pid] = Asked]
    ELSE cancel

kill_process(c, pid) ==
  /\ User(c) /\ Len(KILL_QUEUE) < MaxQueue
  /\ Enter(c, "kp_look", pid, 0)
  /\ UNCHANGED <<cpu, TICK_COUNT, PROCESS_TABLE, schedVars, idVars,
                 execVars, queueVars>>
  /\ UNCHANGED <<kbdVars, hwVars, killed, cancel, harness>>

\* Mutant of kill_process_lookup: the two kinds go to each other's kill.
kill_process_lookupSwapped(c) ==
  /\ In(c, "kp_look")
  /\ LET is_thread == IF IsSome(PROCESS_TABLE) /\ ctx[c].x \in DOMAIN Unwrap(PROCESS_TABLE)
                        THEN Some(Unwrap(PROCESS_TABLE)[ctx[c].x].is_thread)
                        ELSE None
     IN CASE is_thread = Some(TRUE) -> Goto(c, "kr_push", ctx[c].x, 0)
          [] is_thread = Some(FALSE) -> Goto(c, "kt_mark", ctx[c].x, 0)
          [] OTHER -> Goto(c, "run", 0, 0)
  /\ Unlock(c)
  /\ UNCHANGED <<cpu, TICK_COUNT, PROCESS_TABLE, schedVars, idVars, execVars, queueVars>>
  /\ UNCHANGED <<kbdVars, hwVars, killed, cancel, harness>>

kill_process_lookup(c) ==
  /\ In(c, "kp_look")
  /\ LET is_thread == IF IsSome(PROCESS_TABLE) /\ ctx[c].x \in DOMAIN Unwrap(PROCESS_TABLE)
                        THEN Some(Unwrap(PROCESS_TABLE)[ctx[c].x].is_thread)
                        ELSE None
     IN /\ CASE is_thread = Some(TRUE) -> Goto(c, "kt_mark", ctx[c].x, 0)
             [] is_thread = Some(FALSE) -> Goto(c, "kr_push", ctx[c].x, 1)
             [] OTHER -> Goto(c, "run", 0, 0)
        /\ cancel' = IF is_thread = None THEN AskedFor(ctx[c].x) ELSE cancel
  /\ Unlock(c)
  /\ UNCHANGED <<cpu, TICK_COUNT, PROCESS_TABLE, schedVars, idVars, execVars, queueVars>>
  /\ UNCHANGED <<kbdVars, hwVars, killed, harness>>

kill_request(c, pid) ==
  /\ User(c) /\ c = Idle /\ Len(KILL_QUEUE) < MaxQueue
  /\ Enter(c, "kr_push", pid, 0)
  /\ UNCHANGED <<cpu, TICK_COUNT, PROCESS_TABLE, schedVars, idVars,
                 execVars, queueVars>>
  /\ UNCHANGED <<kbdVars, hwVars, killed, cancel, harness>>

kill_request_push(c) ==
  /\ In(c, "kr_push")
  /\ KILL_QUEUE' = Append(KILL_QUEUE, ctx[c].x)
  /\ Unlock(c) /\ Goto(c, "run", 0, 0)
  /\ cancel' = IF ctx[c].y = 1 THEN AskedFor(ctx[c].x) ELSE cancel
  /\ UNCHANGED <<cpu, TICK_COUNT, PROCESS_TABLE, schedVars, idVars, execVars,
                 WAKE_QUEUE, TASK_SPAWN_QUEUE>>
  /\ UNCHANGED <<kbdVars, hwVars, killed, harness>>

\* ---- spawn_request ----
spawn_request(c) ==
  /\ User(c) /\ c = Idle /\ NEXT_ID <= MaxPid /\ Len(TASK_SPAWN_QUEUE) < MaxQueue
  /\ LET r == TaskId_new(NEXT_ID)
     IN /\ NEXT_ID' = r.next
        /\ issued' = Append(issued, [pid |-> r.id, kind |-> "Task"])
        /\ Goto(c, "sr_push", r.id, 0)
  /\ UNCHANGED <<cpu, rflagsIF, lock, TICK_COUNT, PROCESS_TABLE, schedVars, execVars,
                 queueVars>>
  /\ UNCHANGED <<kbdVars, hwVars, killed, cancel, harness>>

spawn_request_push(c) ==
  /\ In(c, "sr_push")
  /\ TASK_SPAWN_QUEUE' = Append(TASK_SPAWN_QUEUE, ctx[c].x)
  /\ Unlock(c) /\ Goto(c, "run", 0, 0)
  /\ UNCHANGED <<cpu, TICK_COUNT, PROCESS_TABLE, schedVars, idVars, execVars,
                 WAKE_QUEUE, KILL_QUEUE>>
  /\ UNCHANGED <<kbdVars, hwVars, killed, cancel, harness>>

\* ---- sleep_ms ----
\* Mutant of SleepTicks: rounds down.
SleepTicksFloor(ms) == ms \div 10

SleepTicks(ms) == (ms + 9) \div 10

sleep_ms(c, ms) ==
  /\ User(c)
  /\ IF SleepTicks(ms) = 0
       THEN UNCHANGED ctx
       ELSE Goto(c, "sl_mark", TICK_COUNT + SleepTicks(ms), 0)
  /\ UNCHANGED <<cpu, rflagsIF, lock, TICK_COUNT, PROCESS_TABLE, schedVars, idVars,
                 execVars, queueVars>>
  /\ UNCHANGED <<kbdVars, hwVars, killed, cancel, harness>>

sleep_mark(c) ==
  /\ In(c, "sl_mark")
  /\ IF IsSome(SCHEDULER) /\ IsSome(Unwrap(SCHEDULER).current)
       THEN /\ SCHEDULER' = Some([Unwrap(SCHEDULER) EXCEPT
                                    !.current[1].state = Sleeping(ctx[c].x)])
            /\ Goto(c, "sl_tbl", ctx[c].x, Unwrap(Unwrap(SCHEDULER).current).pid)
       ELSE /\ UNCHANGED SCHEDULER
            /\ Goto(c, "run", 0, 0)
  /\ Unlock(c)
  /\ UNCHANGED <<cpu, TICK_COUNT, PROCESS_TABLE, SCHEDULER_ENABLED, heap, idVars,
                 execVars, queueVars>>
  /\ UNCHANGED <<kbdVars, hwVars, killed, cancel, harness>>

sleep_table(c) ==
  /\ In(c, "sl_tbl")
  /\ PROCESS_TABLE' = IF IsSome(PROCESS_TABLE)
                      THEN Some(set_state(Unwrap(PROCESS_TABLE), ctx[c].y, "Sleeping"))
                      ELSE PROCESS_TABLE
  /\ Unlock(c) /\ Goto(c, "sl_hlt", ctx[c].x, ctx[c].y)
  /\ UNCHANGED <<cpu, TICK_COUNT, schedVars, idVars, execVars, queueVars>>
  /\ UNCHANGED <<kbdVars, hwVars, killed, cancel, harness>>

\* After hlt returns: the wake-tick test of the halt loop.
sleep_check(c) ==
  /\ On(c, "sl_chk")
  /\ IF TICK_COUNT >= ctx[c].x
       THEN Goto(c, "sl_rest", ctx[c].x, ctx[c].y)
       ELSE Goto(c, "sl_hlt", ctx[c].x, ctx[c].y)
  /\ UNCHANGED <<cpu, rflagsIF, lock, TICK_COUNT, PROCESS_TABLE, schedVars, idVars,
                 execVars, queueVars>>
  /\ UNCHANGED <<kbdVars, hwVars, killed, cancel, harness>>

sleep_restore(c) ==
  /\ In(c, "sl_rest")
  /\ PROCESS_TABLE' = IF IsSome(PROCESS_TABLE)
                      THEN Some(set_state(Unwrap(PROCESS_TABLE), ctx[c].y, "Ready"))
                      ELSE PROCESS_TABLE
  /\ Unlock(c) /\ Goto(c, "run", 0, 0)
  /\ UNCHANGED <<cpu, TICK_COUNT, schedVars, idVars, execVars, queueVars>>
  /\ UNCHANGED <<kbdVars, hwVars, killed, cancel, harness>>

\* ---- demo_thread_entry ----
\* The one without_interrupts block at its start: SCHEDULER.lock() in an inner
\* block, then PROCESS_TABLE.lock() in the next, interrupts off throughout.
demo_thread_entry(c) ==
  /\ User(c) /\ c # Idle
  /\ Enter(c, "de_sched", 0, 0)
  /\ UNCHANGED <<cpu, TICK_COUNT, PROCESS_TABLE, schedVars, idVars, execVars, queueVars>>
  /\ UNCHANGED <<kbdVars, hwVars, killed, cancel, harness>>

\* Mutant of demo_read_pid: the scheduler guard lives to the end of the closure.
demo_read_pidHolding(c) ==
  /\ In(c, "de_sched")
  /\ IF lock["PROCESS_TABLE"] = Free
       THEN /\ lock' = [lock EXCEPT !["PROCESS_TABLE"] = c]
            /\ ctx' = [ctx EXCEPT ![c] = [pc |-> "de_tbl", ph |-> "cs", x |-> 0, y |-> 0]]
       ELSE /\ UNCHANGED lock
            /\ ctx' = [ctx EXCEPT ![c] = [pc |-> "de_tbl", ph |-> "spin", x |-> 0, y |-> 0]]
  /\ UNCHANGED <<cpu, rflagsIF, TICK_COUNT, PROCESS_TABLE, schedVars, idVars, execVars,
                 queueVars>>
  /\ UNCHANGED <<kbdVars, hwVars, killed, cancel, harness>>

\* current's pid (0 without one); the scheduler guard is dropped at the end
\* of its block and PROCESS_TABLE.lock() follows, still masked.
demo_read_pid(c) ==
  /\ In(c, "de_sched")
  /\ LET pid == IF IsSome(SCHEDULER) /\ IsSome(Unwrap(SCHEDULER).current)
                  THEN Unwrap(Unwrap(SCHEDULER).current).pid ELSE 0
     IN IF lock["PROCESS_TABLE"] = Free
          THEN /\ lock' = [lock EXCEPT !["SCHEDULER"] = Free, !["PROCESS_TABLE"] = c]
               /\ ctx' = [ctx EXCEPT ![c] = [pc |-> "de_tbl", ph |-> "cs", x |-> pid, y |-> 0]]
          ELSE /\ lock' = [lock EXCEPT !["SCHEDULER"] = Free]
               /\ ctx' = [ctx EXCEPT ![c] = [pc |-> "de_tbl", ph |-> "spin", x |-> pid, y |-> 0]]
  /\ UNCHANGED <<cpu, rflagsIF, TICK_COUNT, PROCESS_TABLE, schedVars, idVars, execVars,
                 queueVars>>
  /\ UNCHANGED <<kbdVars, hwVars, killed, cancel, harness>>

\* The name of the entry is read; the closure ends.
demo_read_name(c) ==
  /\ In(c, "de_tbl")
  /\ Unlock(c) /\ Goto(c, "run", 0, 0)
  /\ UNCHANGED <<cpu, TICK_COUNT, PROCESS_TABLE, schedVars, idVars, execVars, queueVars>>
  /\ UNCHANGED <<kbdVars, hwVars, killed, cancel, harness>>

\* ---- the timer interrupt ----
\* A context halted in hlt continues after it when the interrupt returns.
AfterHlt(pc) ==
  CASE pc = "sl_hlt" -> "sl_chk"
    [] pc = "idle_hlt" -> "ds_pop"
    [] OTHER -> pc

\* The handler log when none is kept.
PicOff == <<"off">>

\* Mutant of timer_events: the end-of-interrupt is sent after the scheduler ran.
timer_eventsLate(enabled) ==
  <<"tick">> \o (IF enabled THEN <<"try_schedule">> ELSE <<>>) \o <<"eoi">>

\* What timer_tick_handler does, in order: the tick count, the
\* end-of-interrupt, then try_schedule when the scheduler is enabled.
timer_events(enabled) ==
  <<"tick", "eoi">> \o (IF enabled THEN <<"try_schedule">> ELSE <<>>)

Logged(events) == IF pic = PicOff THEN pic ELSE events

\* timer_isr with a handler that takes the process table to mark the entry
\* of the thread it resumes.
timer_isrTable ==
  /\ rflagsIF = 1 /\ cpu \in Ctx /\ TICK_COUNT < MaxTick
  /\ lock["PROCESS_TABLE"] = Free
  /\ LET r == timer_tick_handler(SCHEDULER_ENABLED, lock["SCHEDULER"], SCHEDULER,
                                 cpu, TICK_COUNT + 1)
     IN /\ TICK_COUNT' = TICK_COUNT + 1
        /\ SCHEDULER' = r.sched
        /\ heap' = dealloc_stack(heap, r.freed)
        /\ cpu' = r.frame
        /\ PROCESS_TABLE' =
             IF IsSome(PROCESS_TABLE) /\ r.frame \in Pids
               THEN Some(set_state(Unwrap(PROCESS_TABLE), r.frame, "Running"))
               ELSE PROCESS_TABLE
  /\ pic' = Logged(timer_events(SCHEDULER_ENABLED))
  /\ UNCHANGED <<memVars, faultVars>>
  /\ ctx' = [ctx EXCEPT ![cpu].pc = AfterHlt(@)]
  /\ UNCHANGED <<rflagsIF, lock, SCHEDULER_ENABLED, idVars, execVars, queueVars>>
  /\ UNCHANGED <<kbdVars, killed, cancel, harness>>

\* timer_isr + timer_tick_handler: taken only with interrupts enabled; the
\* frame passed in lies on the interrupted stack; the CPU resumes on the
\* stack of the frame returned.
timer_isr ==
  /\ rflagsIF = 1 /\ cpu \in Ctx /\ TICK_COUNT < MaxTick
  /\ LET r == timer_tick_handler(SCHEDULER_ENABLED, lock["SCHEDULER"], SCHEDULER,
                                 cpu, TICK_COUNT + 1)
     IN /\ TICK_COUNT' = TICK_COUNT + 1
        /\ SCHEDULER' = r.sched
        /\ heap' = dealloc_stack(heap, r.freed)
        /\ cpu' = r.frame
  /\ pic' = Logged(timer_events(SCHEDULER_ENABLED))
  /\ UNCHANGED <<memVars, faultVars>>
  /\ ctx' = [ctx EXCEPT ![cpu].pc = AfterHlt(@)]
  /\ UNCHANGED <<rflagsIF, lock, PROCESS_TABLE, SCHEDULER_ENABLED, idVars, execVars,
                 queueVars>>
  /\ UNCHANGED <<kbdVars, killed, cancel, harness>>

\* ---- boot (kernel_main after kernel::init) ----
\* Each init is the one statement *X.lock() = Some(..); nothing else can hold
\* X yet and the timer handler does not look at it before scheduler_enable.
process_init ==
  /\ On(Idle, "boot_pt")
  /\ PROCESS_TABLE' = Some(<<>>)
  /\ Goto(Idle, "boot_sched", 0, 0)
  /\ UNCHANGED <<cpu, rflagsIF, lock, TICK_COUNT, schedVars, idVars, execVars, queueVars>>
  /\ UNCHANGED <<kbdVars, hwVars, killed, cancel, harness>>

scheduler_init ==
  /\ On(Idle, "boot_sched")
  /\ SCHEDULER' = Some(Scheduler(<<>>, None, NullFrame, None))
  /\ Goto(Idle, "boot_en", 0, 0)
  /\ UNCHANGED <<cpu, rflagsIF, lock, TICK_COUNT, PROCESS_TABLE, SCHEDULER_ENABLED, heap,
                 idVars, execVars, queueVars>>
  /\ UNCHANGED <<kbdVars, hwVars, killed, cancel, harness>>

scheduler_enable ==
  /\ On(Idle, "boot_en")
  /\ SCHEDULER_ENABLED' = TRUE
  /\ Goto(Idle, "sp_new", 0, 0)
  /\ UNCHANGED <<cpu, rflagsIF, lock, TICK_COUNT, PROCESS_TABLE, SCHEDULER, heap, idVars,
                 execVars, queueVars>>
  /\ UNCHANGED <<kbdVars, hwVars, killed, cancel, harness>>

\* ---- Executor ----
\* Executor::spawn; a second insert of the same id panics.
\* Mutant of spawn: the new task goes to the front of the ready queue.
spawnPushFront(id) ==
  /\ tasks' = tasks \cup {id}
  /\ ready_queue' = <<id>> \o ready_queue

spawn(id) ==
  /\ tasks' = tasks \cup {id}
  /\ ready_queue' = Append(ready_queue, id)

\* Executor::spawn_process("shell", ..) from kernel_main.
spawn_process ==
  /\ On(Idle, "sp_new") /\ NEXT_ID <= MaxPid
  /\ LET r == TaskId_new(NEXT_ID)
     IN /\ NEXT_ID' = r.next
        /\ issued' = Append(issued, [pid |-> r.id, kind |-> "Task"])
        /\ spawn(r.id)
        /\ Goto(Idle, "sp_reg", r.id, 0)
  /\ UNCHANGED <<cpu, rflagsIF, lock, TICK_COUNT, PROCESS_TABLE, schedVars, waker_cache,
                 polling, queueVars>>
  /\ UNCHANGED <<kbdVars, hwVars, killed, cancel, harness>>

spawn_process_register ==
  /\ In(Idle, "sp_reg")
  /\ PROCESS_TABLE' = IF IsSome(PROCESS_TABLE)
                      THEN Some(register(Unwrap(PROCESS_TABLE), ctx[Idle].x, FALSE))
                      ELSE PROCESS_TABLE
  /\ Unlock(Idle) /\ Goto(Idle, "ds_pop", 0, 0)
  /\ UNCHANGED <<cpu, TICK_COUNT, schedVars, idVars, execVars, queueVars>>
  /\ UNCHANGED <<kbdVars, hwVars, killed, cancel, harness>>

drain_spawn_queue ==
  /\ In(Idle, "ds_pop")
  /\ IF TASK_SPAWN_QUEUE = <<>>
       THEN /\ Goto(Idle, "dk_pop", 0, 0)
            /\ UNCHANGED <<TASK_SPAWN_QUEUE, tasks, ready_queue>>
       ELSE /\ TASK_SPAWN_QUEUE' = Tail(TASK_SPAWN_QUEUE)
            /\ spawn(Head(TASK_SPAWN_QUEUE))
            /\ Goto(Idle, "ds_reg", Head(TASK_SPAWN_QUEUE), 0)
  /\ Unlock(Idle)
  /\ UNCHANGED <<cpu, TICK_COUNT, PROCESS_TABLE, schedVars, idVars, waker_cache, polling,
                 WAKE_QUEUE, KILL_QUEUE>>
  /\ UNCHANGED <<kbdVars, hwVars, killed, cancel, harness>>

drain_spawn_register ==
  /\ In(Idle, "ds_reg")
  /\ PROCESS_TABLE' = IF IsSome(PROCESS_TABLE)
                      THEN Some(register(Unwrap(PROCESS_TABLE), ctx[Idle].x, FALSE))
                      ELSE PROCESS_TABLE
  /\ Unlock(Idle) /\ Goto(Idle, "ds_pop", 0, 0)
  /\ UNCHANGED <<cpu, TICK_COUNT, schedVars, idVars, execVars, queueVars>>
  /\ UNCHANGED <<kbdVars, hwVars, killed, cancel, harness>>

drain_kill_queue ==
  /\ In(Idle, "dk_pop")
  /\ IF KILL_QUEUE = <<>>
       THEN /\ Goto(Idle, "dw_pop", 0, 0)
            /\ UNCHANGED <<KILL_QUEUE, tasks, waker_cache>>
       ELSE /\ KILL_QUEUE' = Tail(KILL_QUEUE)
            /\ tasks' = tasks \ {Head(KILL_QUEUE)}
            /\ waker_cache' = waker_cache \ {Head(KILL_QUEUE)}
            /\ Goto(Idle, "dk_term", Head(KILL_QUEUE), 0)
  /\ Unlock(Idle)
  /\ UNCHANGED <<cpu, TICK_COUNT, PROCESS_TABLE, schedVars, idVars, ready_queue, polling,
                 WAKE_QUEUE, TASK_SPAWN_QUEUE>>
  /\ UNCHANGED <<kbdVars, hwVars, killed, cancel, harness>>

drain_kill_terminate ==
  /\ In(Idle, "dk_term")
  /\ PROCESS_TABLE' = IF IsSome(PROCESS_TABLE)
                      THEN Some(terminate(Unwrap(PROCESS_TABLE), ctx[Idle].x, 1))
                      ELSE PROCESS_TABLE
  /\ Unlock(Idle) /\ Goto(Idle, "dk_pop", 0, 0)
  /\ UNCHANGED <<cpu, TICK_COUNT, schedVars, idVars, execVars, queueVars>>
  /\ UNCHANGED <<kbdVars, hwVars, killed, cancel, harness>>

\* Mutant of drain_wake_queue: no look at the task map before the push.
drain_wake_queueUnchecked ==
  /\ In(Idle, "dw_pop")
  /\ IF WAKE_QUEUE = <<>>
       THEN /\ Goto(Idle, "pr_pop", 0, 0)
            /\ UNCHANGED <<WAKE_QUEUE, ready_queue>>
       ELSE /\ WAKE_QUEUE' = Tail(WAKE_QUEUE)
            /\ ready_queue' = Append(ready_queue, Head(WAKE_QUEUE))
            /\ Goto(Idle, "dw_set", Head(WAKE_QUEUE), 0)
  /\ Unlock(Idle)
  /\ UNCHANGED <<cpu, TICK_COUNT, PROCESS_TABLE, schedVars, idVars, tasks, waker_cache,
                 polling, KILL_QUEUE, TASK_SPAWN_QUEUE>>
  /\ UNCHANGED <<kbdVars, hwVars, killed, cancel, harness>>

\* Mutant of drain_wake_queue: the id goes to the front of the ready queue.
drain_wake_queueFront ==
  /\ In(Idle, "dw_pop")
  /\ IF WAKE_QUEUE = <<>>
       THEN /\ Goto(Idle, "pr_pop", 0, 0)
            /\ UNCHANGED <<WAKE_QUEUE, ready_queue>>
       ELSE /\ WAKE_QUEUE' = Tail(WAKE_QUEUE)
            /\ IF Head(WAKE_QUEUE) \in tasks
                 THEN /\ ready_queue' = <<Head(WAKE_QUEUE)>> \o ready_queue
                      /\ Goto(Idle, "dw_set", Head(WAKE_QUEUE), 0)
                 ELSE /\ UNCHANGED ready_queue
                      /\ Goto(Idle, "dw_pop", Head(WAKE_QUEUE), 0)
  /\ Unlock(Idle)
  /\ UNCHANGED <<cpu, TICK_COUNT, PROCESS_TABLE, schedVars, idVars, tasks, waker_cache,
                 polling, KILL_QUEUE, TASK_SPAWN_QUEUE>>
  /\ UNCHANGED <<kbdVars, hwVars, killed, cancel, harness>>

drain_wake_queue ==
  /\ In(Idle, "dw_pop")
  /\ IF WAKE_QUEUE = <<>>
       THEN /\ Goto(Idle, "pr_pop", 0, 0)
            /\ UNCHANGED <<WAKE_QUEUE, ready_queue>>
       ELSE /\ WAKE_QUEUE' = Tail(WAKE_QUEUE)
            /\ IF Head(WAKE_QUEUE) \in tasks
                 THEN /\ ready_queue' = Append(ready_queue, Head(WAKE_QUEUE))
                      /\ Goto(Idle, "dw_set", Head(WAKE_QUEUE), 0)
                 ELSE /\ UNCHANGED ready_queue
                      /\ Goto(Idle, "dw_pop", Head(WAKE_QUEUE), 0)
  /\ Unlock(Idle)
  /\ UNCHANGED <<cpu, TICK_COUNT, PROCESS_TABLE, schedVars, idVars, tasks, waker_cache,
                 polling, KILL_QUEUE, TASK_SPAWN_QUEUE>>
  /\ UNCHANGED <<kbdVars, hwVars, killed, cancel, harness>>

drain_wake_set ==
  /\ In(Idle, "dw_set")
  /\ PROCESS_TABLE' = IF IsSome(PROCESS_TABLE)
                      THEN Some(set_state(Unwrap(PROCESS_TABLE), ctx[Idle].x, "Ready"))
                      ELSE PROCESS_TABLE
  /\ Unlock(Idle) /\ Goto(Idle, "dw_pop", 0, 0)
  /\ UNCHANGED <<cpu, TICK_COUNT, schedVars, idVars, execVars, queueVars>>
  /\ UNCHANGED <<kbdVars, hwVars, killed, cancel, harness>>

\* ---- poll_ready_tasks ----
\* One turn of `while let Some(task_id) = self.ready_queue.pop_front()`.
poll_ready_tasks ==
  /\ On(Idle, "pr_pop")
  /\ IF ready_queue = <<>>
       THEN /\ Goto(Idle, "idle", 0, 0)
            /\ UNCHANGED <<ready_queue, polling>>
       ELSE /\ ready_queue' = Tail(ready_queue)
            /\ IF Head(ready_queue) \in tasks
                 THEN polling' = Head(ready_queue) /\ Goto(Idle, "pr_run", 0, 0)
                 ELSE UNCHANGED polling /\ Goto(Idle, "pr_pop", Head(ready_queue), 0)
  /\ UNCHANGED <<cpu, rflagsIF, lock, TICK_COUNT, PROCESS_TABLE, schedVars, idVars, tasks,
                 waker_cache, queueVars>>
  /\ UNCHANGED <<kbdVars, hwVars, killed, cancel, harness>>

\* set_state(Running), then the cached waker, then task.poll starts.
poll_mark_running ==
  /\ In(Idle, "pr_run")
  /\ PROCESS_TABLE' = IF IsSome(PROCESS_TABLE)
                      THEN Some(set_state(Unwrap(PROCESS_TABLE), polling, "Running"))
                      ELSE PROCESS_TABLE
  /\ waker_cache' = waker_cache \cup {polling}
  /\ Unlock(Idle) /\ Goto(Idle, "run", 0, 0)
  /\ harness' = IF harness.on THEN [harness EXCEPT !.polled = Append(@, polling)]
                              ELSE harness
  /\ UNCHANGED <<cpu, TICK_COUNT, schedVars, idVars, tasks, ready_queue, polling, queueVars>>
  /\ UNCHANGED <<kbdVars, hwVars, killed, cancel>>

\* The polled future calls its waker (yield_now's wake_by_ref).
wake(c) ==
  /\ User(c) /\ c = Idle /\ Len(WAKE_QUEUE) < MaxQueue
  /\ Enter(c, "wk_push", polling, 0)
  /\ UNCHANGED <<cpu, TICK_COUNT, PROCESS_TABLE, schedVars, idVars,
                 execVars, queueVars>>
  /\ UNCHANGED <<kbdVars, hwVars, killed, cancel, harness>>

\* Mutant of wake_task: the id goes straight to the executor's ready queue.
wake_taskReady(c) ==
  /\ In(c, "wk_push")
  /\ ready_queue' = Append(ready_queue, ctx[c].x)
  /\ Unlock(c) /\ Goto(c, "run", 0, 0)
  /\ UNCHANGED <<cpu, TICK_COUNT, PROCESS_TABLE, schedVars, idVars, tasks, waker_cache,
                 polling, queueVars>>
  /\ UNCHANGED <<kbdVars, hwVars, killed, cancel, harness>>

wake_task(c) ==
  /\ In(c, "wk_push")
  /\ WAKE_QUEUE' = Append(WAKE_QUEUE, ctx[c].x)
  /\ Unlock(c) /\ Goto(c, "run", 0, 0)
  /\ UNCHANGED <<cpu, TICK_COUNT, PROCESS_TABLE, schedVars, idVars, execVars,
                 KILL_QUEUE, TASK_SPAWN_QUEUE>>
  /\ UNCHANGED <<kbdVars, hwVars, killed, cancel, harness>>

\* task.poll returned Poll::Ready(()).
poll_ready ==
  /\ User(Idle)
  /\ tasks' = tasks \ {polling}
  /\ waker_cache' = waker_cache \ {polling}
  /\ Goto(Idle, "pr_term", polling, 0)
  /\ UNCHANGED <<cpu, rflagsIF, lock, TICK_COUNT, PROCESS_TABLE, schedVars, idVars,
                 ready_queue, polling, queueVars>>
  /\ UNCHANGED <<kbdVars, hwVars, killed, cancel, harness>>

\* Mutant of poll_terminate: the exit code of a killed task.
poll_terminateKilled ==
  /\ In(Idle, "pr_term")
  /\ PROCESS_TABLE' = IF IsSome(PROCESS_TABLE)
                      THEN Some(terminate(Unwrap(PROCESS_TABLE), ctx[Idle].x, 1))
                      ELSE PROCESS_TABLE
  /\ polling' = 0
  /\ Unlock(Idle) /\ Goto(Idle, "pr_pop", 0, 0)
  /\ UNCHANGED <<cpu, TICK_COUNT, schedVars, idVars, tasks, ready_queue, waker_cache,
                 queueVars>>
  /\ UNCHANGED <<kbdVars, hwVars, killed, cancel, harness>>

poll_terminate ==
  /\ In(Idle, "pr_term")
  /\ PROCESS_TABLE' = IF IsSome(PROCESS_TABLE)
                      THEN Some(terminate(Unwrap(PROCESS_TABLE), ctx[Idle].x, 0))
                      ELSE PROCESS_TABLE
  /\ polling' = 0
  /\ Unlock(Idle) /\ Goto(Idle, "pr_pop", 0, 0)
  /\ UNCHANGED <<cpu, TICK_COUNT, schedVars, idVars, tasks, ready_queue, waker_cache,
                 queueVars>>
  /\ UNCHANGED <<kbdVars, hwVars, killed, cancel, harness>>

\* task.poll returned Poll::Pending.
poll_pending ==
  /\ User(Idle)
  /\ Goto(Idle, "pr_blk", polling, 0)
  /\ UNCHANGED <<cpu, rflagsIF, lock, TICK_COUNT, PROCESS_TABLE, schedVars, idVars,
                 execVars, queueVars>>
  /\ UNCHANGED <<kbdVars, hwVars, killed, cancel, harness>>

poll_blocked ==
  /\ In(Idle, "pr_blk")
  /\ PROCESS_TABLE' = IF IsSome(PROCESS_TABLE)
                      THEN Some(set_state(Unwrap(PROCESS_TABLE), ctx[Idle].x, "Blocked"))
                      ELSE PROCESS_TABLE
  /\ polling' = 0
  /\ Unlock(Idle) /\ Goto(Idle, "pr_pop", 0, 0)
  /\ UNCHANGED <<cpu, TICK_COUNT, schedVars, idVars, tasks, ready_queue, waker_cache,
                 queueVars>>
  /\ UNCHANGED <<kbdVars, hwVars, killed, cancel, harness>>

\* sleep_if_idle: cli; the emptiness tests; enable_and_hlt or enable.  The
\* iteration of run's loop ends here and the next one begins.
\* Mutant of sleep_if_idle: only the ready queue is looked at before the halt.
sleep_if_idleReadyOnly ==
  /\ On(Idle, "idle")
  /\ IF ready_queue = <<>>
       THEN Goto(Idle, "idle_hlt", 0, 0)
       ELSE Goto(Idle, "ds_pop", 0, 0)
  /\ cancel' = [p \in Pids |-> CASE cancel[p] = Asked -> Iterating
                                  [] cancel[p] = Iterating -> Iterated
                                  [] OTHER -> cancel[p]]
  /\ harness' = IF harness.on THEN [harness EXCEPT !.mark = Len(harness.polled)]
                              ELSE harness
  /\ UNCHANGED <<cpu, rflagsIF, lock, TICK_COUNT, PROCESS_TABLE, schedVars, idVars,
                 execVars, queueVars>>
  /\ UNCHANGED <<kbdVars, hwVars, killed>>

sleep_if_idle ==
  /\ On(Idle, "idle")
  /\ IF ready_queue = <<>> /\ WAKE_QUEUE = <<>> /\ TASK_SPAWN_QUEUE = <<>> /\ KILL_QUEUE = <<>>
       THEN Goto(Idle, "idle_hlt", 0, 0)
       ELSE Goto(Idle, "ds_pop", 0, 0)
  /\ cancel' = [p \in Pids |-> CASE cancel[p] = Asked -> Iterating
                                  [] cancel[p] = Iterating -> Iterated
                                  [] OTHER -> cancel[p]]
  /\ harness' = IF harness.on THEN [harness EXCEPT !.mark = Len(harness.polled)]
                              ELSE harness
  /\ UNCHANGED <<cpu, rflagsIF, lock, TICK_COUNT, PROCESS_TABLE, schedVars, idVars,
                 execVars, queueVars>>
  /\ UNCHANGED <<kbdVars, hwVars, killed>>

\* ---- the test program of tests/async_executor.rs ----
Count(log, id) == Cardinality({i \in 1..Len(log) : log[i] = id})

\* executor.spawn(Task::new(future)) between two calls of run_until_idle.
test_spawn(k) ==
  /\ On(Idle, "test") /\ harness.on /\ NEXT_ID <= MaxSpawned
  /\ LET r == TaskId_new(NEXT_ID)
     IN /\ NEXT_ID' = r.next
        /\ issued' = Append(issued, [pid |-> r.id, kind |-> "Task"])
        /\ spawn(r.id)
        /\ harness' = [harness EXCEPT !.kind[r.id] = k]
  /\ UNCHANGED <<cpu, rflagsIF, ctx, lock, TICK_COUNT, PROCESS_TABLE, schedVars,
                 waker_cache, polling, queueVars>>
  /\ UNCHANGED <<kbdVars, hwVars, killed, cancel>>

\* executor.run_until_idle(): the call, with the tasks spawned before it and
\* the length of the log of polls.
run_until_idle ==
  /\ On(Idle, "test") /\ harness.on /\ harness.calls < MaxCalls
  /\ Goto(Idle, "ds_pop", 0, 0)
  /\ harness' = [harness EXCEPT !.due = tasks, !.mark = Len(harness.polled)]
  /\ UNCHANGED <<cpu, rflagsIF, lock, TICK_COUNT, PROCESS_TABLE, schedVars, idVars,
                 execVars, queueVars>>
  /\ UNCHANGED <<kbdVars, hwVars, killed, cancel>>

\* run_until_idle returns once poll_ready_tasks has found the ready queue empty.
run_until_idle_return ==
  /\ On(Idle, "idle") /\ harness.on
  /\ Goto(Idle, "test", 0, 0)
  /\ harness' = [harness EXCEPT !.calls = @ + 1]
  /\ UNCHANGED <<cpu, rflagsIF, lock, TICK_COUNT, PROCESS_TABLE, schedVars, idVars,
                 execVars, queueVars>>
  /\ UNCHANGED <<kbdVars, hwVars, killed, cancel>>

\* Mutant of YieldNow_poll: no self-wake.
YieldNow_pollNoWake ==
  /\ User(Idle) /\ harness.on /\ polling \in Pids
  /\ harness.kind[polling] = "yield" /\ polling \notin harness.yielded
  /\ harness' = [harness EXCEPT !.yielded = @ \cup {polling}]
  /\ UNCHANGED <<cpu, rflagsIF, ctx, lock, TICK_COUNT, PROCESS_TABLE, schedVars, idVars,
                 execVars, queueVars>>
  /\ UNCHANGED <<kbdVars, hwVars, killed, cancel>>

\* YieldNow::poll with yielded false: yielded = true, cx.waker().wake_by_ref()
\* (TaskWaker -> wake_task), and Poll::Pending once the wake is pushed.
YieldNow_poll ==
  /\ User(Idle) /\ harness.on /\ polling \in Pids
  /\ harness.kind[polling] = "yield" /\ polling \notin harness.yielded
  /\ Enter(Idle, "wk_push", polling, 0)
  /\ harness' = [harness EXCEPT !.yielded = @ \cup {polling}]
  /\ UNCHANGED <<cpu, TICK_COUNT, PROCESS_TABLE, schedVars, idVars, execVars, queueVars>>
  /\ UNCHANGED <<kbdVars, hwVars, killed, cancel>>

\* What the poll of the task in hand returns: a "ready" future completes; a
\* "yield" future is pending in the poll that yielded and completes in the
\* next one; a "pend" future is pending.
ReturnsReady ==
  /\ User(Idle) /\ polling \in Pids
  /\ \/ harness.kind[polling] = "ready"
     \/ /\ harness.kind[polling] = "yield" /\ polling \in harness.yielded
        /\ Count(harness.polled, polling) >= 2
ReturnsPending ==
  /\ User(Idle) /\ polling \in Pids
  /\ \/ harness.kind[polling] = "pend"
     \/ /\ harness.kind[polling] = "yield" /\ polling \in harness.yielded
        /\ Count(harness.polled, polling) = 1

\* ---- keyboard ----
\* The reference queue before any operation.
FifoOff == [q |-> <<>>, ret |-> None, dropped |-> FALSE]

\* ScancodeQueue: a ring of RingSize bytes.
ScancodeQueue_new == [buf |-> [i \in 0..(RingSize - 1) |-> 0], read |-> 0, write |-> 0, count |-> 0]

\* Mutant of ScancodeQueue_push: a full ring takes the byte over the oldest one.
ScancodeQueue_pushOverwrite(q, scancode) ==
  [q EXCEPT !.buf[q.write] = scancode,
            !.write = (q.write + 1) % RingSize,
            !.count = IF q.count < RingSize THEN q.count + 1 ELSE q.count]

ScancodeQueue_push(q, scancode) ==
  IF q.count < RingSize
    THEN [q EXCEPT !.buf[q.write] = scancode,
                   !.write = (q.write + 1) % RingSize,
                   !.count = q.count + 1]
    ELSE q

\* pop: the queue afterwards and the Option<u8> returned.
ScancodeQueue_pop(q) ==
  IF q.count = 0
    THEN [q |-> q, val |-> None]
    ELSE [q |-> [q EXCEPT !.read = (q.read + 1) % RingSize, !.count = q.count - 1],
          val |-> Some(q.buf[q.read])]

\* The reference: a queue of at most RingSize bytes, with what its last pop
\* gave and whether its last push was refused.
Fifo_push(f, scancode) ==
  IF Len(f.q) < RingSize
    THEN [f EXCEPT !.q = Append(f.q, scancode), !.dropped = FALSE]
    ELSE [f EXCEPT !.dropped = TRUE]

Fifo_pop(f) ==
  IF f.q = <<>> THEN [f EXCEPT !.ret = None]
  ELSE [f EXCEPT !.q = Tail(f.q), !.ret = Some(Head(f.q))]

\* ScancodeQueue::push and ::pop called on the ring in any order, each beside
\* the same call on the reference.
Scancodes == 1..MaxKeys

Ring_push(scancode) ==
  /\ SCANCODE_QUEUE' = ScancodeQueue_push(SCANCODE_QUEUE, scancode)
  /\ fifo' = Fifo_push(fifo, scancode)
  /\ UNCHANGED <<cpu, rflagsIF, ctx, polling, lock, TICK_COUNT, PROCESS_TABLE, schedVars,
                 idVars, execVars, queueVars, KEYBOARD_WAKER, scancodes, popped>>
  /\ UNCHANGED <<hwVars, killed, cancel, harness>>

Ring_pop ==
  /\ LET r == ScancodeQueue_pop(SCANCODE_QUEUE)
     IN SCANCODE_QUEUE' = r.q /\ popped' = r.val
  /\ fifo' = Fifo_pop(fifo)
  /\ UNCHANGED <<cpu, rflagsIF, ctx, polling, lock, TICK_COUNT, PROCESS_TABLE, schedVars,
                 idVars, execVars, queueVars, KEYBOARD_WAKER, scancodes>>
  /\ UNCHANGED <<hwVars, killed, cancel, harness>>

\* notify_keyboard_interrupt: the wake queue afterwards.  try_lock fails
\* while `holder` has the waker slot; wake_by_ref is wake_task(task_id).
notify_keyboard_interrupt(holder, waker, wake_queue) ==
  IF holder = Free /\ IsSome(waker) THEN Append(wake_queue, Unwrap(waker)) ELSE wake_queue

\* Mutant of keyboard_blocked: notify_keyboard_interrupt takes the waker slot
\* with lock().
keyboard_blockedOnWaker ==
  lock["SCANCODE_QUEUE"] # Free \/ lock["WAKE_QUEUE"] # Free \/ lock["KEYBOARD_WAKER"] # Free

\* The handler's two lock() calls: SCANCODE_QUEUE.lock() and, in wake_task,
\* WAKE_QUEUE.lock(); either spins for ever if the interrupted context holds
\* the lock.
keyboard_blocked == lock["SCANCODE_QUEUE"] # Free \/ lock["WAKE_QUEUE"] # Free

\* What keyboard_interrupt_handler does, in order: the push, the wake (or the
\* skip when try_lock fails, or nothing without a waker), the end-of-interrupt.
keyboard_events(holder, waker) ==
  <<"push">> \o (IF holder # Free THEN <<"skip">>
                 ELSE IF IsSome(waker) THEN <<"wake">> ELSE <<>>) \o <<"eoi">>

\* keyboard_interrupt_handler: taken only with interrupts enabled, runs
\* masked to its end.
keyboard_interrupt_handler ==
  /\ rflagsIF = 1 /\ cpu \in Ctx /\ scancodes < MaxKeys
  /\ scancodes' = scancodes + 1
  /\ IF keyboard_blocked
       THEN /\ cpu' = Crashed /\ UNCHANGED <<SCANCODE_QUEUE, WAKE_QUEUE, ctx>>
            /\ pic' = Logged(<<"spin">>)
       ELSE /\ pic' = Logged(keyboard_events(lock["KEYBOARD_WAKER"], KEYBOARD_WAKER))
            /\ SCANCODE_QUEUE' = ScancodeQueue_push(SCANCODE_QUEUE, scancodes + 1)
            /\ WAKE_QUEUE' = notify_keyboard_interrupt(lock["KEYBOARD_WAKER"],
                                                       KEYBOARD_WAKER, WAKE_QUEUE)
            /\ ctx' = [ctx EXCEPT ![cpu].pc = AfterHlt(@)]
            /\ UNCHANGED cpu
  /\ UNCHANGED <<rflagsIF, lock, polling, TICK_COUNT, PROCESS_TABLE, schedVars, idVars,
                 tasks, ready_queue, waker_cache, KILL_QUEUE, TASK_SPAWN_QUEUE,
                 KEYBOARD_WAKER, ringVars, memVars, faultVars, killed,
                 cancel, harness>>

\* ScancodeStreamFuture::poll, called by the task being polled: the first
\* without_interrupts(|| SCANCODE_QUEUE.lock().pop()).
ScancodeStreamFuture_poll ==
  /\ User(Idle) /\ polling # 0
  /\ Enter(Idle, "kb_pop1", 0, 0)
  /\ UNCHANGED <<cpu, TICK_COUNT, PROCESS_TABLE, schedVars, idVars, execVars, queueVars,
                 kbdVars, hwVars, killed, cancel, harness>>

\* First check: Ready(scancode), after which the task goes on and awaits the
\* next one, or on to the waker registration.
poll_first_check ==
  /\ In(Idle, "kb_pop1")
  /\ LET r == ScancodeQueue_pop(SCANCODE_QUEUE)
     IN /\ SCANCODE_QUEUE' = r.q
        /\ IF IsSome(r.val)
             THEN Goto(Idle, "run", Unwrap(r.val), 0)
             ELSE Goto(Idle, "kb_reg", 0, 0)
  /\ Unlock(Idle)
  /\ UNCHANGED <<cpu, TICK_COUNT, PROCESS_TABLE, schedVars, idVars, execVars, queueVars,
                 KEYBOARD_WAKER, scancodes, ringVars, hwVars, killed, cancel, harness>>

\* *KEYBOARD_WAKER.lock() = Some(cx.waker().clone()), interrupts enabled.
poll_register_waker ==
  /\ In(Idle, "kb_reg")
  /\ KEYBOARD_WAKER' = Some(polling)
  /\ Unlock(Idle) /\ Goto(Idle, "kb_pop2", 0, 0)
  /\ UNCHANGED <<cpu, TICK_COUNT, PROCESS_TABLE, schedVars, idVars, execVars, queueVars,
                 SCANCODE_QUEUE, scancodes, ringVars, hwVars, killed, cancel,
                 harness>>

\* Mutant of poll_second_check: Pending without looking at the ring again.
poll_second_checkSkipped ==
  /\ In(Idle, "kb_pop2")
  /\ Goto(Idle, "pr_blk", polling, 0)
  /\ Unlock(Idle)
  /\ UNCHANGED <<cpu, TICK_COUNT, PROCESS_TABLE, schedVars, idVars, execVars, queueVars,
                 kbdVars, hwVars, killed, cancel, harness>>

\* Double check: Ready(scancode), or Pending back to poll_ready_tasks.
poll_second_check ==
  /\ In(Idle, "kb_pop2")
  /\ LET r == ScancodeQueue_pop(SCANCODE_QUEUE)
     IN /\ SCANCODE_QUEUE' = r.q
        /\ IF IsSome(r.val)
             THEN Goto(Idle, "run", Unwrap(r.val), 0)
             ELSE Goto(Idle, "pr_blk", polling, 0)
  /\ Unlock(Idle)
  /\ UNCHANGED <<cpu, TICK_COUNT, PROCESS_TABLE, schedVars, idVars, execVars, queueVars,
                 KEYBOARD_WAKER, scancodes, ringVars, hwVars, killed, cancel, harness>>

\* ---- frame allocation and the heap ----
\* The addresses r.start..r.end stepped by 4096, each as the frame that
\* contains it.
Frames(r) ==
  [i \in 1..((r.end - r.start + PageSize - 1) \div PageSize) |->
     (r.start + (i - 1) * PageSize) \div PageSize]

\* usable_frames: the frames of the Usable regions, in memory-map order.
RECURSIVE usable_frames(_)
usable_frames(memory_regions) ==
  IF memory_regions = <<>> THEN <<>>
  ELSE (IF Head(memory_regions).kind = "Usable" THEN Frames(Head(memory_regions)) ELSE <<>>)
       \o usable_frames(Tail(memory_regions))

nth(s, n) == IF n < Len(s) THEN Some(s[n + 1]) ELSE None

BootInfoFrameAllocator_init(memory_regions) == [memory_regions |-> memory_regions, next |-> 0]

\* Mutant of allocate_frame: next is left where it was.
allocate_frameStuck(self) ==
  [self |-> self, frame |-> nth(usable_frames(self.memory_regions), self.next)]

\* allocate_frame: the allocator afterwards and the Option<PhysFrame> returned.
allocate_frame(self) ==
  [self |-> [self EXCEPT !.next = @ + 1],
   frame |-> nth(usable_frames(self.memory_regions), self.next)]

\* map_to's walk to the level-1 table: every table still missing takes a
\* frame from the allocator; log is what allocate_frame returned.
RECURSIVE create_tables(_, _, _)
create_tables(missing, fa, log) ==
  IF missing = 0 THEN [ok |-> TRUE, missing |-> 0, fa |-> fa, log |-> log]
  ELSE LET a == allocate_frame(fa)
       IN IF a.frame = None
            THEN [ok |-> FALSE, missing |-> missing, fa |-> a.self, log |-> Append(log, None)]
            ELSE create_tables(missing - 1, a.self, Append(log, a.frame))

\* Mapper::map_to: FrameAllocationFailed when a page table cannot be
\* created, PageAlreadyMapped when the entry is in use, else the mapping.
map_to(m, page, fa) ==
  LET t == create_tables(m.missing, fa, <<>>)
  IN IF ~t.ok
       THEN [ret |-> "FrameAllocationFailed", mapper |-> [m EXCEPT !.missing = t.missing],
             fa |-> t.fa, log |-> t.log]
     ELSE IF page \in m.mapped
       THEN [ret |-> "PageAlreadyMapped", mapper |-> [m EXCEPT !.missing = 0],
             fa |-> t.fa, log |-> t.log]
       ELSE [ret |-> "Ok", mapper |-> [mapped |-> m.mapped \cup {page}, missing |-> 0],
             fa |-> t.fa, log |-> t.log]

RECURSIVE map_heap(_, _, _, _)
\* Mutant of map_heap: the result of map_to is not looked at.
RECURSIVE map_heapUnchecked(_, _, _, _)
map_heapUnchecked(page, m, fa, log) ==
  IF page > HeapPages THEN [ret |-> "Ok", mapper |-> m, fa |-> fa, log |-> log]
  ELSE LET a == allocate_frame(fa)
       IN IF a.frame = None
            THEN [ret |-> "FrameAllocationFailed", mapper |-> m, fa |-> a.self,
                  log |-> Append(log, None)]
            ELSE LET r == map_to(m, page, a.self)
                 IN map_heapUnchecked(page + 1, r.mapper, r.fa, Append(log, a.frame) \o r.log)

\* init_heap's loop from `page` on: allocate_frame()?, then map_to(..)?.
map_heap(page, m, fa, log) ==
  IF page > HeapPages THEN [ret |-> "Ok", mapper |-> m, fa |-> fa, log |-> log]
  ELSE LET a == allocate_frame(fa)
       IN IF a.frame = None
            THEN [ret |-> "FrameAllocationFailed", mapper |-> m, fa |-> a.self,
                  log |-> Append(log, None)]
            ELSE LET r == map_to(m, page, a.self)
                 IN IF r.ret # "Ok"
                      THEN [ret |-> r.ret, mapper |-> r.mapper, fa |-> r.fa,
                            log |-> Append(log, a.frame) \o r.log]
                      ELSE map_heap(page + 1, r.mapper, r.fa, Append(log, a.frame) \o r.log)

\* init_heap: the loop, then ALLOCATOR.lock().init(..) and Ok(()).
init_heap ==
  /\ Len(heap_ret) < MaxHeapCalls
  /\ LET r == map_heap(1, mapper, frame_allocator, <<>>)
     IN /\ mapper' = r.mapper
        /\ frame_allocator' = r.fa
        /\ frames' = frames \o r.log
        /\ ALLOCATOR' = IF r.ret = "Ok" THEN ALLOCATOR + 1 ELSE ALLOCATOR
        /\ heap_ret' = Append(heap_ret, r.ret)
  /\ UNCHANGED <<cpu, rflagsIF, ctx, lock, TICK_COUNT, PROCESS_TABLE, schedVars, idVars,
                 execVars, queueVars>>
  /\ UNCHANGED <<kbdVars, pic, faultVars, killed, cancel, harness>>

\* frame_allocator.allocate_frame() called from anywhere else.
allocate_frame_call ==
  /\ frame_allocator.next < MaxNext
  /\ LET a == allocate_frame(frame_allocator)
     IN frame_allocator' = a.self /\ frames' = Append(frames, a.frame)
  /\ UNCHANGED <<cpu, rflagsIF, ctx, lock, TICK_COUNT, PROCESS_TABLE, schedVars, idVars,
                 execVars, queueVars>>
  /\ UNCHANGED <<kbdVars, pic, mapper, ALLOCATOR, heap_ret, faultVars, killed, cancel,
                 harness>>

\* The memory maps tried: up to MaxRegions regions of whole frames below
\* MaxFrame, no two overlapping, in any order.
Regions ==
  {[start |-> a * PageSize, end |-> b * PageSize, kind |-> k] :
     a \in 0..MaxFrame, b \in 0..MaxFrame, k \in {"Usable", "Reserved"}}
MemoryMaps ==
  {m \in UNION {[1..n -> Regions] : n \in 0..MaxRegions} :
     /\ \A i \in 1..Len(m) : m[i].start < m[i].end
     /\ \A i, j \in 1..Len(m) : i # j => m[i].end <= m[j].start \/ m[j].end <= m[i].start}

\* ---- gdt.rs, init_idt and the delivery of exceptions ----
DOUBLE_FAULT_IST_INDEX == 0
STACK_SIZE == PageSize * 5

\* Where things lie, in bytes.  The boot stack ends at StackTop and reaches
\* down to page `low`; the page under it is the loader's guard page, not
\* mapped.  The kernel image, with static DOUBLE_FAULT_STACK in it, lies above.
StackTop == (MaxStackPages + 1) * PageSize
DOUBLE_FAULT_STACK == (MaxStackPages + 2) * PageSize
ImageEnd == DOUBLE_FAULT_STACK + STACK_SIZE + PageSize
Mapped(addr, low) ==
  \/ low * PageSize <= addr /\ addr < StackTop
  \/ StackTop <= addr /\ addr < ImageEnd
\* A write of `size` bytes under addr goes through.
Writable(addr, size, low) ==
  addr >= size /\ Mapped(addr - size, low) /\ Mapped(addr - 1, low)

\* TaskStateSegment::new() and the entry gdt::init writes.
TaskStateSegment_new == [interrupt_stack_table |-> [i \in 0..6 |-> 0]]

gdt_tss ==
  [TaskStateSegment_new EXCEPT
     !.interrupt_stack_table[DOUBLE_FAULT_IST_INDEX] = DOUBLE_FAULT_STACK + STACK_SIZE]

\* An IDT entry: its handler and the IST field of its options, 0 for none;
\* set_stack_index(i) stores i + 1 there.
set_handler_fn(handler) == [handler |-> handler, ist |-> 0]
set_stack_index(entry, index) == [entry EXCEPT !.ist = index + 1]

\* Mutant of InterruptDescriptorTable_init: the double-fault entry has no
\* stack index.
InterruptDescriptorTable_initNoIst ==
  [breakpoint |-> set_handler_fn("breakpoint_handler"),
   double_fault |-> set_handler_fn("double_fault_handler"),
   page_fault |-> set_handler_fn("page_fault_handler")]

\* The table init_idt builds.
InterruptDescriptorTable_init ==
  [breakpoint |-> set_handler_fn("breakpoint_handler"),
   double_fault |-> set_stack_index(set_handler_fn("double_fault_handler"),
                                    DOUBLE_FAULT_IST_INDEX),
   page_fault |-> set_handler_fn("page_fault_handler")]

\* What the CPU pushes on entry: five words, and an error code for the page
\* fault and the double fault.
Pushed(vector) == IF vector = "breakpoint" THEN 5 * 8 ELSE 6 * 8

\* The CPU delivers exception `vector` with stack pointer rsp: it takes the
\* stack of the entry's IST field from the loaded TSS when the field is set,
\* the current stack otherwise, and pushes its frame there.  A push that
\* faults, a table that is not loaded or an IST field without a TSS turns a
\* breakpoint into a page fault, a page fault into a double fault and a
\* double fault into a reset (triple fault).
RECURSIVE Deliver(_, _, _, _, _)
Deliver(vector, rsp, tss, idt, low) ==
  LET next == CASE vector = "breakpoint" -> "page_fault"
                [] vector = "page_fault" -> "double_fault"
                [] OTHER -> "reset"
      entry == Unwrap(idt)[vector]
      usable == idt # None /\ (entry.ist = 0 \/ tss # None)
      target == IF entry.ist = 0 THEN rsp
                ELSE Unwrap(tss).interrupt_stack_table[entry.ist - 1]
  IN IF vector = "reset" THEN [pc |-> "reset", rsp |-> rsp]
     ELSE IF usable /\ Writable(target, Pushed(vector), low)
       THEN [pc |-> entry.handler, rsp |-> target - Pushed(vector)]
       ELSE Deliver(next, rsp, tss, idt, low)

\* The fault path when it is not followed.
FaultOff ==
  /\ TSS = None /\ IDT = None
  /\ fault = [pc |-> "off", rsp |-> 0, calls |-> <<>>, low |-> 0]

\* gdt::init(): the TSS with its IST entry, the GDT, load_tss.
gdt_init ==
  /\ fault.pc = "gdt"
  /\ TSS' = Some(gdt_tss)
  /\ fault' = [fault EXCEPT !.pc = "idt"]
  /\ UNCHANGED <<cpu, rflagsIF, ctx, polling, lock, TICK_COUNT, PROCESS_TABLE, schedVars,
                 idVars, execVars, queueVars, IDT>>
  /\ UNCHANGED <<kbdVars, pic, memVars, killed, cancel, harness>>

\* init_idt(): the table is built and loaded.
init_idt ==
  /\ fault.pc = "idt"
  /\ IDT' = Some(InterruptDescriptorTable_init)
  /\ fault' = [fault EXCEPT !.pc = "main"]
  /\ UNCHANGED <<cpu, rflagsIF, ctx, polling, lock, TICK_COUNT, PROCESS_TABLE, schedVars,
                 idVars, execVars, queueVars, TSS>>
  /\ UNCHANGED <<kbdVars, pic, memVars, killed, cancel, harness>>

\* A function is called with `size` bytes of frame.  When the frame reaches
\* under the stack, the write into it page-faults with rsp lowered, or the
\* call instruction's own push does when no room is left at all.
call(size) ==
  /\ fault.pc = "main"
  /\ IF Writable(fault.rsp, size, fault.low)
       THEN /\ Len(fault.calls) < MaxDepth
            /\ fault' = [fault EXCEPT !.rsp = @ - size, !.calls = Append(@, size)]
       ELSE \E at \in {fault.rsp - size} \cup
                       {a \in {fault.rsp} : ~Writable(fault.rsp, 8, fault.low)} :
              LET d == Deliver("page_fault", at, TSS, IDT, fault.low)
              IN fault' = [fault EXCEPT !.pc = d.pc, !.rsp = d.rsp]
  /\ UNCHANGED <<cpu, rflagsIF, ctx, polling, lock, TICK_COUNT, PROCESS_TABLE, schedVars,
                 idVars, execVars, queueVars, TSS, IDT>>
  /\ UNCHANGED <<kbdVars, pic, memVars, killed, cancel, harness>>

\* The function called last returns.
return ==
  /\ fault.pc = "main" /\ fault.calls # <<>>
  /\ LET n == Len(fault.calls)
     IN fault' = [fault EXCEPT !.rsp = @ + fault.calls[n],
                               !.calls = SubSeq(@, 1, n - 1)]
  /\ UNCHANGED <<cpu, rflagsIF, ctx, polling, lock, TICK_COUNT, PROCESS_TABLE, schedVars,
                 idVars, execVars, queueVars, TSS, IDT>>
  /\ UNCHANGED <<kbdVars, pic, memVars, killed, cancel, harness>>

\* int3, or a read of an address that is not mapped.
raise(vector) ==
  /\ fault.pc = "main"
  /\ LET d == Deliver(vector, fault.rsp, TSS, IDT, fault.low)
     IN fault' = [fault EXCEPT !.pc = d.pc, !.rsp = d.rsp]
  /\ UNCHANGED <<cpu, rflagsIF, ctx, polling, lock, TICK_COUNT, PROCESS_TABLE, schedVars,
                 idVars, execVars, queueVars, TSS, IDT>>
  /\ UNCHANGED <<kbdVars, pic, memVars, killed, cancel, harness>>

\* breakpoint_handler prints and returns: iretq takes the frame off.
breakpoint_handler ==
  /\ fault.pc = "breakpoint_handler"
  /\ fault' = [fault EXCEPT !.pc = "main", !.rsp = @ + Pushed("breakpoint")]
  /\ UNCHANGED <<cpu, rflagsIF, ctx, polling, lock, TICK_COUNT, PROCESS_TABLE, schedVars,
                 idVars, execVars, queueVars, TSS, IDT>>
  /\ UNCHANGED <<kbdVars, pic, memVars, killed, cancel, harness>>

\* Memory once kernel_main has set the heap up: one usable region, the heap
\* pages mapped from its first frames.
MemBoot ==
  /\ frame_allocator = [memory_regions |-> <<[start |-> 0, end |-> MaxFrame * PageSize,
                                               kind |-> "Usable"]>>,
                        next |-> HeapPages]
  /\ frames = [i \in 1..HeapPages |-> Some(i - 1)]
  /\ mapper = [mapped |-> 1..HeapPages, missing |-> 0]
  /\ ALLOCATOR = 1
  /\ heap_ret = <<"Ok">>

\* ---- the system ----
InitBase ==
  /\ cpu = Idle
  /\ rflagsIF = 1
  /\ ctx = [c \in Ctx |-> IF c = Idle THEN At("boot_pt", 0, 0) ELSE NoCtx]
  /\ polling = 0
  /\ lock = [l \in LockNames |-> Free]
  /\ SCHEDULER = None
  /\ SCHEDULER_ENABLED = FALSE
  /\ TICK_COUNT = 0
  /\ PROCESS_TABLE = None
  /\ NEXT_ID = 1
  /\ heap = [p \in Pids |-> [alloc |-> FALSE, frees |-> 0]]
  /\ tasks = {}
  /\ ready_queue = <<>>
  /\ waker_cache = {}
  /\ WAKE_QUEUE = <<>>
  /\ KILL_QUEUE = <<>>
  /\ TASK_SPAWN_QUEUE = <<>>
  /\ issued = <<>>
  /\ SCANCODE_QUEUE = ScancodeQueue_new
  /\ KEYBOARD_WAKER = None
  /\ scancodes = 0
  /\ fifo = FifoOff /\ popped = None
  /\ killed = [p \in Pids |-> NotKilled]

Init ==
  /\ InitBase /\ cancel = [p \in Pids |-> Untracked] /\ pic = PicOff
  /\ harness = HarnessOff /\ MemBoot /\ FaultOff

\* Before the heap is set up: any memory map, a fresh frame allocator, no heap
\* page mapped, up to MaxTables page tables to create on the way.
InitMem ==
  /\ InitBase /\ cancel = [p \in Pids |-> Untracked] /\ pic = PicOff
  /\ harness = HarnessOff
  /\ \E m \in MemoryMaps : frame_allocator = BootInfoFrameAllocator_init(m)
  /\ frames = <<>>
  /\ \E n \in 0..MaxTables : mapper = [mapped |-> {}, missing |-> n]
  /\ ALLOCATOR = 0
  /\ heap_ret = <<>>
  /\ FaultOff

\* The same start, with what the interrupt handlers do and the polls of each
\* iteration of run written down.
InitKbd ==
  /\ InitBase /\ cancel = [p \in Pids |-> Untracked] /\ pic = <<>>
  /\ harness = [HarnessOff EXCEPT !.on = TRUE] /\ MemBoot /\ FaultOff

\* The same start, with kill_process followed on every task.
InitExec ==
  /\ InitBase /\ cancel = [p \in Pids |-> NotAsked] /\ pic = PicOff
  /\ harness = HarnessOff /\ MemBoot /\ FaultOff

\* Boot, the executor loop, the timer interrupt and entry to the next
\* critical section of whatever operation a context is in.
Kernel ==
  \/ timer_isr
  \/ process_init \/ scheduler_init \/ scheduler_enable
  \/ spawn_process \/ spawn_process_register
  \/ drain_spawn_queue \/ drain_kill_queue \/ drain_wake_queue
  \/ poll_ready_tasks \/ poll_mark_running
  \/ poll_ready \/ poll_terminate \/ poll_pending \/ poll_blocked
  \/ sleep_if_idle
  \/ \E c \in Ctx : without_interrupts(c) \/ MutexLock(c)

\* The scheduler's public operations, called by any context: all but the
\* entry of spawn_thread, which takes an id.
ThreadSteps ==
  \E c \in Ctx :
    \/ spawn_thread_register(c) \/ spawn_thread_push(c)
    \/ exit_current_thread(c) \/ exit_mark(c) \/ exit_table(c)
    \/ kill_thread_mark(c) \/ kill_thread_table(c)
    \/ sleep_mark(c) \/ sleep_table(c) \/ sleep_check(c) \/ sleep_restore(c)
    \/ \E pid \in Pids : kill_thread(c, pid)
    \/ \E ms \in SleepArgs : sleep_ms(c, ms)

ThreadOps == ThreadSteps \/ \E c \in Ctx : spawn_thread(c)

\* The process-level operations: unified kill, queued spawn and kill, a
\* task's self-wake, and the executor's handling of a dequeued request.
ProcOps ==
  \/ drain_spawn_register \/ drain_kill_terminate \/ drain_wake_set
  \/ \E c \in Ctx :
       \/ kill_process_lookup(c) \/ kill_request_push(c)
       \/ (NEXT_ID <= MaxSpawned /\ spawn_request(c)) \/ spawn_request_push(c)
       \/ wake(c) \/ wake_task(c)
       \/ \E pid \in Pids : kill_process(c, pid) \/ kill_request(c, pid)

\* Threads and the timer: any context calls the scheduler's operations, with
\* MaxSpawned ids to hand out.
Next ==
  \/ Kernel \/ ThreadSteps
  \/ \E c \in Ctx : NEXT_ID <= MaxSpawned /\ spawn_thread(c)
  \/ \E c \in Ctx : demo_thread_entry(c) \/ demo_read_pid(c) \/ demo_read_name(c)

Spec == Init /\ [][Next]_vars

\* The same operations with every id of Pids available.
NextKill == Kernel \/ ThreadOps

SpecKill == Init /\ [][NextKill]_vars

\* The scheduler's operations as the process-level runs use them: tasks
\* spawn threads, threads sleep and exit; kill_thread is reached through
\* kill_process.
ProcThreadOps ==
  \/ (NEXT_ID <= MaxSpawned /\ spawn_thread(Idle))
  \/ \E c \in Ctx :
       \/ spawn_thread_register(c) \/ spawn_thread_push(c)
       \/ exit_current_thread(c) \/ exit_mark(c) \/ exit_table(c)
       \/ kill_thread_mark(c) \/ kill_thread_table(c)
       \/ sleep_mark(c) \/ sleep_table(c) \/ sleep_check(c) \/ sleep_restore(c)
       \/ (c # Idle /\ sleep_ms(c, 10))

\* Threads, tasks and the timer, with the process-level operations.
NextProc == (Kernel /\ TICK_COUNT' <= MaxProcTick) \/ ProcThreadOps \/ ProcOps

SpecProc == Init /\ [][NextProc]_vars

\* The executor with its tasks alone: no thread is spawned, so every call
\* comes from the task being polled.
NextExec == Kernel \/ ProcOps

SpecExec == InitExec /\ [][NextExec]_vars

\* ---- the executor under its test program ----
\* A fresh Executor, the process table initialised or not, no scheduler;
\* the timer ticks.
InitTest ==
  /\ cpu = Idle
  /\ rflagsIF = 1
  /\ ctx = [c \in Ctx |-> IF c = Idle THEN At("test", 0, 0) ELSE NoCtx]
  /\ polling = 0
  /\ lock = [l \in LockNames |-> Free]
  /\ SCHEDULER = None
  /\ SCHEDULER_ENABLED = FALSE
  /\ TICK_COUNT = 0
  /\ PROCESS_TABLE \in {None, Some(<<>>)}
  /\ NEXT_ID = 1
  /\ heap = [p \in Pids |-> [alloc |-> FALSE, frees |-> 0]]
  /\ tasks = {}
  /\ ready_queue = <<>>
  /\ waker_cache = {}
  /\ WAKE_QUEUE = <<>>
  /\ KILL_QUEUE = <<>>
  /\ TASK_SPAWN_QUEUE = <<>>
  /\ issued = <<>>
  /\ SCANCODE_QUEUE = ScancodeQueue_new
  /\ KEYBOARD_WAKER = None
  /\ scancodes = 0
  /\ fifo = FifoOff /\ popped = None
  /\ pic = PicOff /\ MemBoot /\ FaultOff
  /\ killed = [p \in Pids |-> NotKilled]
  /\ cancel = [p \in Pids |-> Untracked]
  /\ harness = [HarnessOff EXCEPT !.on = TRUE]

NextTest ==
  \/ \E k \in Kinds : test_spawn(k)
  \/ run_until_idle \/ run_until_idle_return
  \/ drain_spawn_queue \/ drain_kill_queue \/ drain_wake_queue \/ drain_wake_set
  \/ poll_ready_tasks \/ poll_mark_running
  \/ YieldNow_poll \/ wake_task(Idle)
  \/ (ReturnsReady /\ poll_ready) \/ poll_terminate
  \/ (ReturnsPending /\ poll_pending) \/ poll_blocked
  \/ without_interrupts(Idle) \/ MutexLock(Idle)
  \/ timer_isr

SpecTest == InitTest /\ [][NextTest]_vars

\* The test program with the executor never stopping inside a call of
\* run_until_idle: its loops and every poll run to their end (straight-line
\* code on the one CPU, no other context to hold a lock).
RunUntilIdleStep ==
  \/ drain_spawn_queue \/ drain_kill_queue \/ drain_wake_queue \/ drain_wake_set
  \/ poll_ready_tasks \/ poll_mark_running
  \/ YieldNow_poll \/ wake_task(Idle)
  \/ (ReturnsReady /\ poll_ready) \/ poll_terminate
  \/ (ReturnsPending /\ poll_pending) \/ poll_blocked
  \/ without_interrupts(Idle) \/ MutexLock(Idle)
  \/ run_until_idle_return
SpecTestLive == SpecTest /\ WF_vars(RunUntilIdleStep)

\* ---- the timer handler on its own ----
\* timer_tick_handler applied to every scheduler of up to MaxProbeQueue queued
\* threads, with the lock free or taken, the scheduler there or not, enabled
\* or not; the interrupted stack is the current thread's, or the idle one.
ProbeStates == {Ready, Sleeping(1), Sleeping(3), Terminated}
ProbeQueues(cur) ==
  {q \in UNION {[1..n -> (Pids \ {cur}) \X ProbeStates] : n \in 0..MaxProbeQueue} :
     \A i, j \in 1..Len(q) : i # j => q[i][1] # q[j][1]}
ProbeThreads(q) == [i \in 1..Len(q) |-> Thread(q[i][1], q[i][2], q[i][1], q[i][1])]

InitTick ==
  /\ rflagsIF = 1
  /\ polling = 0
  /\ TICK_COUNT = 0
  /\ PROCESS_TABLE = None
  /\ NEXT_ID = 1
  /\ tasks = {} /\ ready_queue = <<>> /\ waker_cache = {}
  /\ WAKE_QUEUE = <<>> /\ KILL_QUEUE = <<>> /\ TASK_SPAWN_QUEUE = <<>>
  /\ issued = <<>>
  /\ SCANCODE_QUEUE = ScancodeQueue_new
  /\ KEYBOARD_WAKER = None
  /\ scancodes = 0
  /\ fifo = FifoOff /\ popped = None
  /\ pic = PicOff /\ MemBoot /\ FaultOff
  /\ killed = [p \in Pids |-> NotKilled]
  /\ cancel = [p \in Pids |-> Untracked]
  /\ harness = HarnessOff
  /\ SCHEDULER_ENABLED \in BOOLEAN
  /\ \E holder \in {Free, Idle} :
       lock = [l \in LockNames |-> IF l = "SCHEDULER" THEN holder ELSE Free]
  /\ \E cur \in Ctx :
       /\ cpu = cur
       /\ \E q \in ProbeQueues(cur), st \in {Running, Terminated, Sleeping(2)}, there \in BOOLEAN :
            /\ SCHEDULER =
                 IF ~there THEN None
                 ELSE Some(Scheduler(ProbeThreads(q),
                                     IF cur = Idle THEN None
                                     ELSE Some(Thread(cur, st, cur, cur)),
                                     IF cur = Idle THEN NullFrame ELSE Idle, None))
            /\ heap = [p \in Pids |->
                        [alloc |-> there /\ (p = cur \/ \E i \in 1..Len(q) : q[i][1] = p),
                         frees |-> 0]]
            /\ ctx = [c \in Ctx |->
                       IF c = Idle \/ (there /\ (c = cur \/ \E i \in 1..Len(q) : q[i][1] = c))
                         THEN At("run", 0, 0) ELSE NoCtx]

\* ---- the keyboard task under the executor ----
\* Boot, then the executor loop with the shell task, whose poll is
\* ScancodeStreamFuture::poll, and the keyboard and timer interrupts.
NextKbd ==
  \/ timer_isr \/ keyboard_interrupt_handler
  \/ process_init \/ scheduler_init \/ scheduler_enable
  \/ spawn_process \/ spawn_process_register
  \/ drain_spawn_queue \/ drain_kill_queue \/ drain_wake_queue \/ drain_wake_set
  \/ poll_ready_tasks \/ poll_mark_running \/ poll_blocked
  \/ ScancodeStreamFuture_poll \/ poll_first_check \/ poll_register_waker
  \/ poll_second_check
  \/ sleep_if_idle
  \/ (NEXT_ID <= MaxKbdId /\ spawn_thread(Idle))
  \/ spawn_thread_register(Idle) \/ spawn_thread_push(Idle)
  \/ \E c \in Ctx : without_interrupts(c) \/ MutexLock(c)
SpecKbd == InitKbd /\ [][NextKbd]_vars

\* ---- frame allocation and the heap on their own ----
NextMem == init_heap \/ allocate_frame_call
SpecMem == InitMem /\ [][NextMem]_vars

\* ---- the scancode ring on its own ----
NextRing == (\E b \in Scancodes : Ring_push(b)) \/ Ring_pop
SpecRing == Init /\ [][NextRing]_vars

\* ---- the fault path on its own ----
\* tests/stack_overflow.rs: gdt::init(), the IDT, then calls that nest until
\* the boot stack, of one page or more, runs out; breakpoints and page
\* faults on the way.  page_fault_handler and double_fault_handler do not
\* return.
FrameSizes == {PageSize \div 4, PageSize \div 2, PageSize}
InitFault ==
  /\ InitBase /\ cancel = [p \in Pids |-> Untracked] /\ pic = PicOff
  /\ harness = HarnessOff
  /\ MemBoot
  /\ TSS = None /\ IDT = None
  /\ \E low \in 1..MaxStackPages :
       fault = [pc |-> "gdt", rsp |-> StackTop, calls |-> <<>>, low |-> low]
NextFault ==
  \/ gdt_init \/ init_idt
  \/ (\E size \in FrameSizes : call(size))
  \/ return
  \/ (\E vector \in {"breakpoint", "page_fault"} : raise(vector))
  \/ breakpoint_handler
SpecFault == InitFault /\ [][NextFault]_vars

NextTick == timer_isr
SpecTick == InitTick /\ [][NextTick]_vars

\* The timer handler on its own with ticks that keep arriving and find the
\* scheduler there, enabled and its lock free; the interrupted stack is the
\* idle one or that of thread 1, the pids being interchangeable.
InitTickLive ==
  /\ InitTick /\ SCHEDULER_ENABLED /\ lock["SCHEDULER"] = Free /\ IsSome(SCHEDULER)
  /\ cpu \in {Idle, 1}
SpecTickLive == InitTickLive /\ [][NextTick]_vars /\ WF_vars(timer_isr)

(***************************************************************************)
(* Properties                                                              *)
(***************************************************************************)
HasSched == IsSome(SCHEDULER)
Sched == Unwrap(SCHEDULER)
\* The threads known to the scheduler: the current slot, then the ready queue.
AllThreads == IF HasSched THEN Sched.current \o Sched.threads ELSE <<>>
Known(pid) == \E i \in 1..Len(AllThreads) : AllThreads[i].pid = pid

\* C1 (single runner): in every state, hence at every return from
\* Scheduler::schedule, at most one thread among the current slot and the
\* ready queue has state Running.
SingleRunner ==
  Cardinality({i \in 1..Len(AllThreads) : AllThreads[i].state = Running}) <= 1

\* A thread runs while another, which has already run and was preempted,
\* waits in the ready queue.
SingleRunnerWitness ==
  /\ HasSched /\ IsSome(Sched.current)
  /\ Unwrap(Sched.current).state = Running
  /\ \E i \in 1..Len(Sched.threads) :
       /\ Sched.threads[i].state = Ready
       /\ ctx[Sched.threads[i].pid].pc # "run"

\* C2 (stack lifetime): no step frees the stack the CPU is executing on, and
\* no schedule call frees the stack of the thread that was current when it
\* was entered; so the deferred stack is freed only from another stack.
StackLifetime ==
  [][\A s \in Pids :
       heap'[s].frees > heap[s].frees =>
         /\ s # cpu
         /\ ~(HasSched /\ IsSome(Sched.current)
                /\ Unwrap(Sched.current).stack_bottom = s)]_vars

\* A thread exited while it was running and its stack has since been freed
\* through the deferred slot.
StackLifetimeWitness ==
  \E s \in Pids : heap[s].frees = 1 /\ ctx[s].pc = "ex_hlt"

\* The scheduler's record of thread pid, if it has one.
SchedState(pid) ==
  LET idx == {i \in 1..Len(AllThreads) : AllThreads[i].pid = pid}
  IN IF idx = {} THEN None ELSE Some(AllThreads[CHOOSE i \in idx : TRUE].state)
SchedTerminated(pid) == SchedState(pid) = Some(Terminated)

\* A thread on its way out: Terminated in the scheduler, or dropped by it with
\* its stack parked in the deferred slot.
Dying(pid) ==
  \/ SchedTerminated(pid)
  \/ HasSched /\ ~Known(pid) /\ Sched.deferred_dealloc = Some(pid)

\* C3 (freed exactly once, never resumed): no stack is freed twice; a thread
\* the scheduler holds as Terminated stays on its way out (Terminated in the
\* queue or current slot, then possibly the deferred slot) until the step
\* that frees its stack, so it is not leaked by being revived; and no step
\* switches the CPU onto the stack of a Terminated or already freed thread.
TerminatedFreedOnce ==
  [][\A s \in Pids :
       /\ heap'[s].frees <= 1
       /\ Dying(s) => Dying(s)' \/ heap'[s].frees = heap[s].frees + 1
       /\ (Dying(s) \/ heap[s].frees > 0) /\ cpu # s => cpu' # s]_vars

\* The part of C3 that the code keeps: no stack is freed twice and the CPU
\* never moves onto a freed stack.
FreedAtMostOnce ==
  [][\A s \in Pids :
       /\ heap'[s].frees <= 1
       /\ heap[s].frees > 0 /\ cpu # s => cpu' # s]_vars

\* A thread marked Terminated while it sat in the ready queue has been freed
\* by the queue walk.
FreedAtMostOnceWitness ==
  \E s \in Pids : heap[s].frees = 1 /\ ctx[s].pc = "run" /\ ~Known(s)

\* C4 (no deadlock on the process table): no context that has the CPU spins
\* on the PROCESS_TABLE lock with interrupts masked while another context,
\* which therefore can never run again, holds it.  Violated.
ProcessTableDeadlockFree ==
  \A c \in Ctx :
    ~(/\ cpu = c /\ rflagsIF = 0
      /\ ctx[c].ph = "spin" /\ LockOf(ctx[c].pc) = "PROCESS_TABLE"
      /\ lock["PROCESS_TABLE"] \notin {Free, c})

\* C5 (lock discipline): whenever one of the locks is held, interrupts are
\* masked.  Violated.
LockDiscipline == \A l \in LockNames : lock[l] # Free => rflagsIF = 0

\* A timer tick at which try_schedule is not called or returns None.
TickSkipped == ~SCHEDULER_ENABLED \/ lock["SCHEDULER"] # Free \/ ~HasSched

\* C6 (try_schedule returning None): a tick that finds the scheduler disabled,
\* its lock taken or the scheduler uninitialised resumes on the interrupted
\* stack and leaves the scheduler and the stacks as they were; a tick that
\* finds none of these does schedule: it records the idle frame when no
\* thread was current and makes a thread current when one is queued Ready.
TryScheduleNone ==
  [][TICK_COUNT' = TICK_COUNT + 1 =>
       /\ TickSkipped => cpu' = cpu /\ SCHEDULER' = SCHEDULER /\ heap' = heap
       /\ ~TickSkipped =>
            /\ Sched.current = None => Sched'.idle_frame = cpu
            /\ (\E i \in 1..Len(Sched.threads) : Sched.threads[i].state = Ready) =>
                 /\ IsSome(Sched'.current)
                 /\ Unwrap(Sched'.current).state = Running
                 /\ cpu' = Unwrap(Sched'.current).stack_bottom]_vars

\* A tick has passed while the lock of an enabled scheduler with a Ready
\* thread queued was taken.
TryScheduleNoneWitness ==
  /\ TICK_COUNT > 0 /\ SCHEDULER_ENABLED /\ HasSched
  /\ lock["SCHEDULER"] # Free
  /\ \E i \in 1..Len(Sched.threads) : Sched.threads[i].state = Ready

\* C7 (ID uniqueness): the pids issued so far, to threads by spawn_thread and
\* to tasks by spawn_request and spawn_process (Task::new), are pairwise
\* distinct.
IdUniqueness ==
  \A i, j \in 1..Len(issued) : i # j => issued[i].pid # issued[j].pid

\* Pids have gone to a thread and to a task, the thread's before the task's.
IdUniquenessWitness ==
  \E i, j \in 1..Len(issued) :
    i < j /\ issued[i].kind = "Thread" /\ issued[j].kind = "Task"

HasTable == IsSome(PROCESS_TABLE)
Table == Unwrap(PROCESS_TABLE)
TableTerminated(pid) ==
  HasTable /\ pid \in DOMAIN Table /\ Table[pid].state = "Terminated"

\* C8 (Terminated is absorbing): an entry of the process table whose state is
\* Terminated is still there, and still Terminated, after every step.
TerminatedAbsorbing ==
  [][\A pid \in Pids : TableTerminated(pid) => TableTerminated(pid)']_vars

\* A thread whose entry was Terminated has since gone through sleep_ms's
\* set_state(pid, Sleeping): the scheduler has it Sleeping, the table has it
\* Terminated.
TerminatedAbsorbingWitness ==
  \E c \in Pids :
    /\ ctx[c].pc = "sl_hlt" /\ TableTerminated(c)
    /\ SchedState(c) # None /\ Unwrap(SchedState(c)).tag = "Sleeping"

\* A step that is a timer tick on which schedule runs.
ScheduleStep == TICK_COUNT' = TICK_COUNT + 1 /\ ~TickSkipped

\* The order in which a schedule call meets the threads: the ready queue from
\* its head, then the outgoing thread unless it is Terminated.
WalkOrder ==
  Sched.threads \o
    (IF IsSome(Sched.current) /\ Unwrap(Sched.current).state # Terminated
       THEN Sched.current ELSE <<>>)
\* Thread t counts as Ready when a walk at tick `now` meets it.
Runnable(t, now) ==
  \/ t.state.tag \in {"Ready", "Running"}
  \/ t.state.tag = "Sleeping" /\ now >= t.state.wake
FirstRunnable(now) ==
  {i \in 1..Len(WalkOrder) :
     /\ Runnable(WalkOrder[i], now)
     /\ \A j \in 1..(i - 1) : ~Runnable(WalkOrder[j], now)}
Pos(q, pid) == CHOOSE i \in 1..Len(q) : q[i].pid = pid
InQueue(q, pid) == \E i \in 1..Len(q) : q[i].pid = pid

\* C9 (FIFO readiness): on every schedule call, (1) of two threads Ready in
\* the queue the one behind is not the one made current; (2) the thread made
\* current is the one nearest the head among those Ready when the walk meets
\* them, the outgoing thread counting as last in line, and no thread is made
\* current when there is none; (3) a preempted Running thread is put back as
\* Ready behind every thread the walk did not reach.
FifoReadiness ==
  [][ScheduleStep =>
       LET Q == Sched.threads
           now == TICK_COUNT'
           after == Sched'
       IN /\ \A i, j \in 1..Len(Q) :
               i < j /\ Q[i].state = Ready /\ Q[j].state = Ready =>
                 after.current # None /\ Unwrap(after.current).pid # Q[j].pid
          /\ \A i \in FirstRunnable(now) :
               /\ after.current # None
               /\ Unwrap(after.current).pid = WalkOrder[i].pid
               /\ Unwrap(after.current).state = Running
               /\ cpu' = WalkOrder[i].stack_bottom
          /\ FirstRunnable(now) = {} => after.current = None /\ cpu' = Idle
          /\ \A i \in FirstRunnable(now) :
               IsSome(Sched.current) /\ Unwrap(Sched.current).state = Running
               /\ i <= Len(Q) =>
                 LET out == Unwrap(Sched.current).pid
                 IN /\ InQueue(after.threads, out)
                    /\ after.threads[Pos(after.threads, out)].state = Ready
                    /\ \A j \in (i + 1)..Len(Q) :
                         /\ InQueue(after.threads, Q[j].pid)
                         /\ Pos(after.threads, Q[j].pid) < Pos(after.threads, out)]_vars

\* The thread spawned second runs for the first time while the thread spawned
\* first, which ran and was preempted, waits behind it as Ready.
FifoReadinessWitness ==
  /\ HasSched /\ IsSome(Sched.current)
  /\ \E a, b \in Pids :
       /\ a < b
       /\ Unwrap(Sched.current).pid = b /\ Unwrap(Sched.current).state = Running
       /\ ctx[b].pc = "run" /\ cpu = b
       /\ Len(Sched.threads) = 1 /\ Sched.threads[1].pid = a
       /\ Sched.threads[1].state = Ready /\ ctx[a].pc # "run"

\* The state the scheduler holds for pid in s.
StateIn(s, pid) ==
  IF IsSome(s.current) /\ Unwrap(s.current).pid = pid
    THEN Some(Unwrap(s.current).state)
    ELSE IF InQueue(s.threads, pid) THEN Some(s.threads[Pos(s.threads, pid)].state)
    ELSE None

\* C10 as written (boundary tick): a schedule call at a tick before w does not
\* make a Sleeping{w} thread current, and a schedule call at a tick >= w
\* takes every Sleeping{w} thread out of Sleeping, whatever else is queued.
\* Violated.
BoundaryTickAnyQueue ==
  [][ScheduleStep =>
       \A i \in 1..Len(WalkOrder) :
         LET t == WalkOrder[i]
         IN t.state.tag = "Sleeping" =>
              IF TICK_COUNT' < t.state.wake
                THEN StateIn(Sched', t.pid) = Some(t.state)
                ELSE StateIn(Sched', t.pid) # Some(t.state)]_vars

\* C10 amended: a schedule call at a tick before w leaves a Sleeping{w} thread
\* Sleeping{w}; a schedule call at a tick >= w makes it current if the walk
\* meets no thread that is Ready or due before it, and otherwise leaves it
\* Sleeping{w} in the queue for a later call.
BoundaryTick ==
  [][ScheduleStep =>
       \A i \in 1..Len(WalkOrder) :
         LET t == WalkOrder[i]
         IN t.state.tag = "Sleeping" =>
              IF TICK_COUNT' >= t.state.wake /\ i \in FirstRunnable(TICK_COUNT')
                THEN StateIn(Sched', t.pid) = Some(Running) /\ cpu' = t.stack_bottom
                ELSE /\ StateIn(Sched', t.pid) = Some(t.state)
                     /\ InQueue(Sched'.threads, t.pid)]_vars

\* A thread that slept until tick w runs again, the tick count being exactly w.
BoundaryTickWitness ==
  \E c \in Pids :
    /\ cpu = c /\ ctx[c].pc = "sl_chk" /\ ctx[c].x = TICK_COUNT
    /\ SchedState(c) = Some(Running)

\* The executor has taken the task off the ready queue and its poll has not
\* yet returned Pending.
PollInProgress ==
  ctx[Idle].pc \in {"pr_run", "run", "kb_pop1", "kb_reg", "kb_pop2", "st_reg", "st_push"}
Queued(id) == id \in SeqToSet(WAKE_QUEUE) \cup SeqToSet(ready_queue)

\* C11 (no lost wake-up): whenever a byte is in the scancode ring and the
\* task reading the stream is not in the middle of a poll, the task's id is
\* on the wake queue or the ready queue, so it is polled again; and the
\* keyboard ISR never hangs on a lock.
WakeClosesRace ==
  /\ cpu # Crashed
  /\ \A id \in tasks :
       SCANCODE_QUEUE.count > 0 /\ ~PollInProgress => Queued(id)

\* A scancode arrived while poll held the waker slot, after the first check
\* found the ring empty: the ISR's try_lock failed and nothing was queued.
WakeClosesRaceWitness ==
  /\ ctx[Idle].pc = "kb_reg" /\ ctx[Idle].ph = "cs"
  /\ SCANCODE_QUEUE.count > 0 /\ IsSome(KEYBOARD_WAKER)
  /\ WAKE_QUEUE = <<>> /\ ready_queue = <<>>

\* Thread pid has called exit_current_thread and its scheduler section has run.
Exited(pid) == ctx[pid].pc \in {"ex_tbl", "ex_hlt"}

\* C12 (exit reaches the process table): a thread that has called
\* exit_current_thread is Terminated in the scheduler until the scheduler
\* drops it, and by the time its stack is freed, after which it never runs
\* again, its process-table entry is Terminated with exit code 0.  Violated.
ExitTerminates ==
  \A pid \in Pids :
    Exited(pid) =>
      /\ Known(pid) => SchedTerminated(pid)
      /\ heap[pid].frees > 0 =>
           /\ TableTerminated(pid)
           /\ Table[pid].exit_code = Some(0)

\* C13 (kill in flight): once two timer ticks have passed since another
\* context's kill of a thread returned, the thread's stack has been freed and
\* its process entry is Terminated with exit code 1.  Violated.
KillInFlight ==
  \A pid \in Pids :
    killed[pid] # NotKilled /\ TICK_COUNT >= killed[pid] + 2 =>
      /\ heap[pid].frees > 0
      /\ TableTerminated(pid) /\ Table[pid].exit_code = Some(1)

\* C14 (kill_thread's result): the marking section of kill_thread(pid) finds
\* the pid exactly when the thread is the current one or in the ready queue.
\* Found: the thread's state in the scheduler becomes Terminated, and when
\* kill_thread returns true the thread, if the scheduler still holds it, is
\* Terminated there and the process entry is Terminated with exit code 1.
\* Not found: kill_thread returns false with scheduler and process table as
\* they were.  No step of kill_thread frees a stack.
KillThreadResult ==
  [][\A c \in Ctx : \A pid \in Pids :
       /\ kill_thread_mark(c) /\ ctx[c].x = pid =>
            /\ heap' = heap
            /\ IF Known(pid)
                 THEN ctx'[c].pc = "kt_tbl" /\ SchedTerminated(pid)'
                 ELSE /\ ctx'[c].pc = "run"
                      /\ SCHEDULER' = SCHEDULER /\ PROCESS_TABLE' = PROCESS_TABLE
       /\ kill_thread_table(c) /\ ctx[c].x = pid =>
            /\ heap' = heap
            /\ Known(pid)' => SchedTerminated(pid)'
            /\ TableTerminated(pid)' /\ Table'[pid].exit_code = Some(1)]_vars

\* kill_thread on a queued thread has returned true: Terminated in both
\* places, its stack still allocated.
KillThreadResultWitness ==
  \E pid \in Pids :
    /\ killed[pid] # NotKilled
    /\ SchedTerminated(pid) /\ heap[pid].alloc /\ heap[pid].frees = 0
    /\ TableTerminated(pid) /\ Table[pid].exit_code = Some(1)

\* C14, for a thread that kills itself: kill_thread has found it, and once
\* the scheduler has dropped it, so that the call is over, the process entry
\* is Terminated with exit code 1.  Violated.
KillThreadEntry ==
  \A pid \in Pids :
    ctx[pid].pc = "kt_tbl" /\ ctx[pid].x = pid /\ HasSched /\ ~Known(pid) =>
      TableTerminated(pid) /\ Table[pid].exit_code = Some(1)

\* The kind of the process entry of pid, as kill_process reads it.
KindOf(pid) ==
  IF HasTable /\ pid \in DOMAIN Table
    THEN IF Table[pid].is_thread THEN "Thread" ELSE "Task"
    ELSE "None"

\* C15 (unified kill dispatch): the lookup of kill_process(pid) changes no
\* structure and goes on to kill_thread(pid) for an entry of kind Thread, to
\* the push of kill_request(pid) for an entry of kind Task, and returns for no
\* entry.  The steps of kill_thread leave the kill queue as it is; the push
\* appends pid to the kill queue and leaves the scheduler as it is.
KillDispatch ==
  [][\A c \in Ctx : \A pid \in Pids :
       /\ kill_process_lookup(c) /\ ctx[c].x = pid =>
            /\ KILL_QUEUE' = KILL_QUEUE /\ SCHEDULER' = SCHEDULER
            /\ PROCESS_TABLE' = PROCESS_TABLE /\ tasks' = tasks /\ heap' = heap
            /\ ctx'[c].pc = CASE KindOf(pid) = "Thread" -> "kt_mark"
                               [] KindOf(pid) = "Task" -> "kr_push"
                               [] OTHER -> "run"
            /\ KindOf(pid) # "None" => ctx'[c].x = pid
       /\ kill_thread_mark(c) \/ kill_thread_table(c) => KILL_QUEUE' = KILL_QUEUE
       /\ kill_request_push(c) /\ ctx[c].x = pid =>
            KILL_QUEUE' = Append(KILL_QUEUE, pid) /\ SCHEDULER' = SCHEDULER]_vars

\* kill_process on a Thread entry has gone through kill_thread and returned,
\* with nothing in the kill queue.
KillDispatchWitness ==
  \E pid \in Pids :
    /\ KindOf(pid) = "Thread" /\ killed[pid] # NotKilled
    /\ KILL_QUEUE = <<>> /\ \A c \in Ctx : ctx[c].pc \notin {"kp_look", "kt_mark", "kt_tbl"}

\* C16 (task cancellation): for the pid of a task handed out by spawn_process
\* or spawn_request, once kill_process(pid) has returned and the next complete
\* iteration of the executor's loop is over, the task is not in the task set
\* and its process entry is Terminated.  Violated.
TaskCancelled ==
  \A pid \in Pids :
    cancel[pid] = Iterated => pid \notin tasks /\ TableTerminated(pid)

Registered(pid) == HasTable /\ pid \in DOMAIN Table

\* C17 (poll outcome): when the poll of a task returns Ready the executor
\* removes it from the task set and from the waker cache, and its process
\* entry, if registered, is then Terminated with exit code 0; when the poll
\* returns Pending the task stays in the task set and its process entry, if
\* registered, is then Blocked.
PollOutcome ==
  [][\A id \in Pids :
       /\ poll_ready /\ polling = id => id \notin tasks' /\ id \notin waker_cache'
       /\ poll_terminate /\ ctx[Idle].x = id =>
            /\ id \notin tasks' /\ id \notin waker_cache'
            /\ Registered(id) => TableTerminated(id)' /\ Table'[id].exit_code = Some(0)
       /\ poll_pending /\ polling = id => id \in tasks'
       /\ poll_blocked /\ ctx[Idle].x = id =>
            /\ id \in tasks'
            /\ Registered(id) => Table'[id].state = "Blocked"]_vars

\* Both outcomes have happened: one task polled to completion, another
\* left pending.
PollOutcomeWitness ==
  \E a, b \in Pids :
    /\ a \notin tasks /\ TableTerminated(a) /\ Table[a].exit_code = Some(0)
    /\ ~Table[a].is_thread
    /\ b \in tasks /\ Registered(b) /\ Table[b].state = "Blocked"

\* Position of the first poll of id in the log of polls (0: never polled).
FirstPoll(id) ==
  LET I == {i \in 1..Len(harness.polled) : harness.polled[i] = id}
  IN IF I = {} THEN 0 ELSE CHOOSE i \in I : \A j \in I : i <= j

\* C18 (run_until_idle polls every spawned task, in order): when a call of
\* run_until_idle returns, every task that was in the executor at the call,
\* hence every task spawned since the call before, has been polled; first
\* polls come in the order of spawning; the tasks whose future completes on
\* its first poll are gone, and if all are of that kind the task set is empty.
RunUntilIdlePollsAll ==
  [][run_until_idle_return =>
       /\ \A id \in harness.due :
            /\ FirstPoll(id) # 0
            /\ harness.kind[id] = "ready" => id \notin tasks
       /\ \A i, j \in 1..Len(issued) :
            i < j /\ FirstPoll(issued[j].pid) # 0 =>
              /\ FirstPoll(issued[i].pid) # 0
              /\ FirstPoll(issued[i].pid) < FirstPoll(issued[j].pid)
       /\ (\A id \in harness.due : harness.kind[id] = "ready") => tasks = {}]_vars

\* Three futures that complete on their first poll, spawned and then run by
\* one call: polled in order, none left.
RunUntilIdlePollsAllWitness ==
  /\ On(Idle, "test") /\ harness.calls = 1
  /\ harness.due = {1, 2, 3} /\ \A id \in 1..3 : harness.kind[id] = "ready"
  /\ harness.polled = <<1, 2, 3>> /\ tasks = {}

\* C19 (yield semantics): when a call of run_until_idle returns, a task that
\* awaits yield_now() once and was first polled during this call is pending:
\* still in the task set, polled once, its self-wake waiting in the wake queue
\* and not in the ready queue; one that an earlier call left pending has been
\* polled a second time and has completed.
YieldSemantics ==
  [][run_until_idle_return =>
       \A id \in harness.due :
         harness.kind[id] = "yield" =>
           IF FirstPoll(id) > harness.mark
             THEN /\ Count(harness.polled, id) = 1 /\ id \in tasks
                  /\ id \in SeqToSet(WAKE_QUEUE) /\ id \notin SeqToSet(ready_queue)
             ELSE Count(harness.polled, id) = 2 /\ id \notin tasks]_vars

\* The test's run: one yielding task, pending after the first call, completed
\* after the second.
YieldSemanticsWitness ==
  /\ On(Idle, "test") /\ harness.calls = 2
  /\ harness.kind[1] = "yield" /\ harness.polled = <<1, 1>>
  /\ 1 \notin tasks /\ WAKE_QUEUE = <<>>

\* ceil(ms / 10): the least number of 10 ms ticks covering ms.
CeilTicks(ms) == CHOOSE n \in 0..ms : n * 10 >= ms /\ \A k \in 0..ms : k * 10 >= ms => n <= k
SleepPcs == {"sl_mark", "sl_tbl", "sl_hlt", "sl_chk", "sl_rest"}

\* C20 (sleep_ms): called from a thread with ms > 0, sleep_ms takes
\* now + ceil(ms / 10) as wake tick, marks the thread Sleeping{wake tick}, and
\* returns to its caller only at a tick count that is not below the wake
\* tick; sleep_ms(0) returns at once and changes nothing.
SleepContract ==
  [][\A c \in Pids :
       /\ \A ms \in SleepArgs :
            sleep_ms(c, ms) =>
              IF ms > 0
                THEN /\ ctx'[c].pc = "sl_mark"
                     /\ ctx'[c].x = TICK_COUNT + CeilTicks(ms)
                ELSE /\ ctx' = ctx /\ SCHEDULER' = SCHEDULER
                     /\ PROCESS_TABLE' = PROCESS_TABLE
       /\ sleep_mark(c) => SchedState(c)' = Some(Sleeping(ctx[c].x))
       /\ ctx[c].pc \in SleepPcs /\ ctx'[c].pc = "run" => TICK_COUNT' >= ctx[c].x]_vars

\* A thread whose wake tick is 2 is past the halt loop, about to return.
SleepContractWitness ==
  \E c \in Pids :
    /\ In(c, "sl_rest") /\ ctx[c].x = 2
    /\ TICK_COUNT >= ctx[c].x

\* C21 (lock order): no context holds the scheduler lock and the process-table
\* lock at the same time; spawn_thread, exit_current_thread, kill_thread,
\* sleep_ms and demo_thread_entry give up the one before taking the other.
LockOrder ==
  \A c \in Ctx : ~(lock["SCHEDULER"] = c /\ lock["PROCESS_TABLE"] = c)

\* demo_thread_entry has let go of the scheduler and holds the process table.
LockOrderWitness ==
  \E c \in Pids :
    /\ In(c, "de_tbl") /\ lock["PROCESS_TABLE"] = c /\ lock["SCHEDULER"] = Free

\* C22 (exit code): for every entry of the process table, exit_code is Some
\* exactly when state is Terminated.
ExitCodeIffTerminated ==
  HasTable =>
    \A pid \in DOMAIN Table :
      IsSome(Table[pid].exit_code) <=> Table[pid].state = "Terminated"

\* One entry terminated with its code beside one that ran and is live with none.
ExitCodeIffTerminatedWitness ==
  /\ HasTable
  /\ \E a, b \in DOMAIN Table :
       /\ Table[a].state = "Terminated" /\ IsSome(Table[a].exit_code)
       /\ Table[b].state \in {"Running", "Blocked", "Sleeping"}
       /\ Table[b].exit_code = None

\* The bytes held by the ring, oldest first.
Contents(q) == [i \in 1..q.count |-> q.buf[(q.read + i - 1) % RingSize]]

\* C23 (ring refines queue): after every sequence of push and pop the ring
\* holds what a FIFO queue bounded at the ring's size holds, in the same
\* order, and its last pop returned what the queue's did: the oldest byte,
\* or None when empty; a push on a full ring changes nothing.
RingIsFifo ==
  /\ Contents(SCANCODE_QUEUE) = fifo.q
  /\ popped = fifo.ret
  /\ SCANCODE_QUEUE.count <= RingSize
  /\ SCANCODE_QUEUE.write = (SCANCODE_QUEUE.read + SCANCODE_QUEUE.count) % RingSize

\* A full ring that has wrapped, has refused its last push and has given a
\* byte on its last pop.
RingIsFifoWitness ==
  /\ SCANCODE_QUEUE.count = RingSize /\ SCANCODE_QUEUE.read # 0
  /\ fifo.dropped /\ IsSome(popped)
  /\ Contents(SCANCODE_QUEUE)[1] # Contents(SCANCODE_QUEUE)[RingSize]

\* C24 (end of interrupt): every execution of the timer handler and of the
\* keyboard handler that returns has sent the end-of-interrupt exactly once,
\* and the timer handler sent it before it called the scheduler.
EoiOnce ==
  pic \notin {PicOff, <<>>, <<"spin">>} =>
    /\ Count(pic, "eoi") = 1
    /\ \A i, j \in 1..Len(pic) : pic[i] = "try_schedule" /\ pic[j] = "eoi" => j < i

\* The keyboard handler has run and returned, and after it the timer handler
\* has gone through the scheduler.
EoiOnceWitness ==
  /\ pic = <<"tick", "eoi", "try_schedule">> /\ IsSome(SCHEDULER)
  /\ scancodes > 0 /\ cpu # Crashed

\* C25 (the keyboard handler never blocks): whatever it interrupts, the
\* handler finds the ring's lock and the wake queue's lock free and returns
\* to the interrupted stack; while the interrupted code holds the waker slot
\* it pushes the byte and leaves the wake queue alone.
KeyboardNeverBlocks ==
  [][scancodes' # scancodes =>
       /\ cpu' = cpu /\ lock' = lock
       /\ SCANCODE_QUEUE' = ScancodeQueue_push(SCANCODE_QUEUE, scancodes')
       /\ lock["KEYBOARD_WAKER"] # Free => WAKE_QUEUE' = WAKE_QUEUE]_vars

\* poll was preempted in the middle of its waker registration; the handler
\* came on the thread's stack, skipped the wake and returned there.
KeyboardNeverBlocksWitness ==
  /\ pic = <<"push", "skip", "eoi">> /\ cpu \in Pids
  /\ lock["KEYBOARD_WAKER"] = Idle /\ SCANCODE_QUEUE.count > 0
  /\ ctx[Idle].pc = "kb_reg" /\ ctx[Idle].ph = "cs"

\* The ids of a queue that belong to live tasks, in queue order.
Live(q) == SelectSeq(q, LAMBDA id : id \in tasks)

\* C26 (wake order): a wake is pushed at the back of the wake queue; the
\* drain moves ids of live tasks to the ready queue without changing the
\* order of what waits (ready queue, then wake queue); the poll phase takes
\* the task at the front of the ready queue.
WakeFifo ==
  [][/\ Len(WAKE_QUEUE') > Len(WAKE_QUEUE) =>
          \E id \in Pids : WAKE_QUEUE' = Append(WAKE_QUEUE, id)
     /\ Len(WAKE_QUEUE') < Len(WAKE_QUEUE) =>
          /\ WAKE_QUEUE' = Tail(WAKE_QUEUE)
          /\ Live(ready_queue') \o Live(WAKE_QUEUE') = Live(ready_queue) \o Live(WAKE_QUEUE)
     /\ Len(ready_queue') < Len(ready_queue) =>
          /\ ready_queue' = Tail(ready_queue)
          /\ Head(ready_queue) \in tasks => polling' = Head(ready_queue)]_vars

\* Two tasks yielded in turn, were woken in that order and have been polled
\* again in that order.
WakeFifoWitness ==
  \E a, b \in Pids :
    /\ a # b /\ {a, b} \subseteq harness.yielded
    /\ Len(harness.polled) >= 4
    /\ SubSeq(harness.polled, Len(harness.polled) - 3, Len(harness.polled)) = <<a, b, a, b>>

\* C27 (no lost wake-up at idle): the executor is halted in sleep_if_idle
\* only with the ready, wake, spawn and kill queues all empty, nothing is
\* pushed between its check and the halt, and the interrupt that ends the
\* halt sends it back to the drains.
HaltOnlyWhenEmpty ==
  /\ [](ctx[Idle].pc = "idle_hlt" =>
          /\ ready_queue = <<>> /\ WAKE_QUEUE = <<>>
          /\ TASK_SPAWN_QUEUE = <<>> /\ KILL_QUEUE = <<>>)
  /\ [][ctx[Idle].pc = "idle_hlt" /\ ctx'[Idle] # ctx[Idle] =>
          /\ TICK_COUNT' = TICK_COUNT + 1
          /\ ctx'[Idle].pc = "ds_pop"]_vars

\* The executor is halted with a task blocked and a thread queued that may
\* push a request once the timer interrupt lets it run.
HaltOnlyWhenEmptyWitness ==
  /\ ctx[Idle].pc = "idle_hlt" /\ cpu = Idle /\ tasks # {}
  /\ HasSched /\ Sched.threads # <<>> /\ SCHEDULER_ENABLED

\* The polls of the iteration in hand.
ThisIteration == SubSeq(harness.polled, harness.mark + 1, Len(harness.polled))

\* C28 (one poll per iteration): in one iteration of the executor loop no
\* task is polled more than once, however often it was woken before the
\* iteration started.
OncePerIteration ==
  harness.on => \A id \in Pids : Count(ThisIteration, id) <= 1

\* Frame f lies in region i of the memory map, and the region is Usable.
InUsable(i, f) ==
  LET r == frame_allocator.memory_regions[i]
  IN r.kind = "Usable" /\ r.start <= f * PageSize /\ (f + 1) * PageSize <= r.end

\* C29 (frame allocator): over the calls of allocate_frame, no frame is
\* returned twice, every frame returned lies in a Usable region, frames come
\* in memory-map order (region by region, ascending inside a region), and
\* after the first None every call returns None.
FrameAllocatorMonotonic ==
  \A i \in 1..Len(frames) :
    /\ IsSome(frames[i]) =>
         \E r \in 1..Len(frame_allocator.memory_regions) : InUsable(r, Unwrap(frames[i]))
    /\ \A j \in 1..Len(frames) :
         i < j =>
           /\ frames[i] = None => frames[j] = None
           /\ IsSome(frames[i]) /\ IsSome(frames[j]) =>
                /\ frames[i] # frames[j]
                /\ \E ri, rj \in 1..Len(frame_allocator.memory_regions) :
                     /\ InUsable(ri, Unwrap(frames[i])) /\ InUsable(rj, Unwrap(frames[j]))
                     /\ ri < rj \/ (ri = rj /\ Unwrap(frames[i]) < Unwrap(frames[j]))

\* Two regions listed against address order were used up, the second after a
\* Reserved gap in the map or not, and two more calls returned None.
FrameAllocatorMonotonicWitness ==
  /\ Len(frames) >= 4
  /\ IsSome(frames[1]) /\ IsSome(frames[2]) /\ Unwrap(frames[1]) > Unwrap(frames[2])
  /\ frames[Len(frames) - 1] = None /\ frames[Len(frames)] = None

\* C30 (init_heap errors): a call of init_heap after one that returned Ok
\* does not return Ok; a call during which allocate_frame returns None
\* returns FrameAllocationFailed; and only a call that returns Ok initialises
\* the allocator.
InitHeapErrors ==
  [][Len(heap_ret') > Len(heap_ret) =>
       LET ret == heap_ret'[Len(heap_ret')]
           new == SubSeq(frames', Len(frames) + 1, Len(frames'))
       IN /\ "Ok" \in SeqToSet(heap_ret) => ret # "Ok"
          /\ None \in SeqToSet(new) => ret = "FrameAllocationFailed"
          /\ ret # "Ok" => ALLOCATOR' = ALLOCATOR]_vars

\* init_heap succeeded, was called again with frames left and failed on the
\* page already mapped; the allocator was initialised once.
InitHeapErrorsWitness ==
  /\ heap_ret = <<"Ok", "PageAlreadyMapped">> /\ ALLOCATOR = 1
  /\ frames[Len(frames)] # None

\* init_heap ran out of frames on its first call, after it had mapped a page.
InitHeapRunsOut ==
  /\ heap_ret = <<"FrameAllocationFailed">> /\ ALLOCATOR = 0
  /\ mapper.mapped # {} /\ frames[Len(frames)] = None
\* The queue a schedule call walks, the incoming frame being f: the ready
\* queue, with the outgoing thread at its tail unless it is Terminated.
Reinserted(s, f) ==
  IF ~IsSome(s.current) THEN s.threads
  ELSE LET t == Unwrap(s.current)
       IN CASE t.state = Terminated -> s.threads
            [] t.state.tag = "Sleeping" ->
                 s.threads \o <<Thread(t.pid, Sleeping(t.state.wake), t.stack_bottom, f)>>
            [] OTHER -> s.threads \o <<Thread(t.pid, Ready, t.stack_bottom, f)>>

\* C32 (outgoing context): on every schedule call the walk runs over the
\* ready queue with the outgoing thread, its saved frame the incoming one,
\* put back at the tail: as it was when Sleeping, as Ready otherwise, and not
\* at all when Terminated, its stack then going to the deferred slot; with no
\* current thread the incoming frame becomes the idle frame; and when the
\* walk makes no thread current the idle frame is returned.
OutgoingHandling ==
  [][ScheduleStep =>
       LET s == Sched
           f == cpu
           out == IsSome(s.current)
           t == Unwrap(s.current)
           idle == IF out THEN s.idle_frame ELSE f
           drained == IF IsSome(s.deferred_dealloc)
                        THEN <<Unwrap(s.deferred_dealloc)>> ELSE <<>>
           q == Reinserted(s, f)
           w == Walk(q, Len(q), TICK_COUNT', idle, drained)
       IN /\ Sched'.threads = w.threads /\ Sched'.current = w.current
          /\ cpu' = w.frame
          /\ Sched'.idle_frame = idle
          /\ Sched'.deferred_dealloc =
               IF out /\ t.state = Terminated THEN Some(t.stack_bottom) ELSE None
          /\ out /\ t.state = Terminated => StateIn(Sched', t.pid) = None
          /\ out /\ t.state.tag = "Sleeping" =>
               StateIn(Sched', t.pid) \in {Some(t.state), Some(Running)}
          /\ out /\ t.state.tag = "Sleeping" /\ TICK_COUNT' < t.state.wake =>
               /\ InQueue(Sched'.threads, t.pid)
               /\ Sched'.threads[Pos(Sched'.threads, t.pid)] =
                    Thread(t.pid, t.state, t.stack_bottom, f)
          /\ out /\ t.state = Running =>
               \/ StateIn(Sched', t.pid) = Some(Running) /\ cpu' = f
               \/ /\ InQueue(Sched'.threads, t.pid)
                  /\ Sched'.threads[Pos(Sched'.threads, t.pid)] =
                       Thread(t.pid, Ready, t.stack_bottom, f)
          /\ Sched'.current = None => cpu' = idle]_vars

\* A thread that went to sleep was preempted in its hlt loop: it waits at the
\* tail of the queue, still Sleeping until its wake tick, and with no thread
\* Ready the idle frame was returned.
OutgoingHandlingWitness ==
  /\ HasSched /\ Sched.current = None /\ cpu = Idle /\ Sched.idle_frame = Idle
  /\ Sched.threads # <<>>
  /\ LET t == Sched.threads[Len(Sched.threads)]
     IN /\ t.state.tag = "Sleeping" /\ t.state.wake > TICK_COUNT
        /\ ctx[t.pid].pc = "sl_chk" /\ t.saved_frame = t.pid

\* C33 (returned frames): the frame a timer tick resumes is never null and
\* is the interrupted one, or the saved frame of the thread the tick made
\* current, which lies on that thread's own stack and is the one left by its
\* spawn or its last preemption, or the idle frame the scheduler holds; and
\* it never lies on a stack that was freed.
ReturnedFrameValid ==
  [][TICK_COUNT' = TICK_COUNT + 1 =>
       /\ cpu' # NullFrame
       /\ \/ cpu' = cpu
          \/ /\ HasSched' /\ IsSome(Sched'.current)
             /\ LET t == Unwrap(Sched'.current)
                IN /\ cpu' = t.saved_frame /\ t.saved_frame = t.stack_bottom
                   /\ t.state = Running /\ ctx[t.pid] # NoCtx
                   /\ \/ InQueue(Sched.threads, t.pid)
                         /\ Sched.threads[Pos(Sched.threads, t.pid)].saved_frame = cpu'
                      \/ Sched.current = Some([t EXCEPT !.state = Sched.current[1].state])
          \/ HasSched' /\ Sched'.current = None /\ cpu' = Sched'.idle_frame
       /\ cpu' \in Pids => heap'[cpu'].alloc /\ heap'[cpu'].frees = 0]_vars

\* An exited thread's stack has been freed, and by the third tick the CPU
\* runs another thread, resumed from its saved frame, the idle frame being on
\* record.
ReturnedFrameValidWitness ==
  /\ HasSched /\ IsSome(Sched.current) /\ TICK_COUNT >= 3
  /\ \E a, b \in Pids :
       /\ a # b /\ heap[a].frees = 1 /\ ctx[a].pc = "ex_hlt"
       /\ cpu = b /\ Unwrap(Sched.current).pid = b /\ Sched.idle_frame = Idle

\* C34 (schedule and the process table): a timer tick is never held up by
\* the process-table lock, leaves that lock and every other lock as they
\* were, and leaves the process table as it was; of the shared state only
\* the scheduler's thread records, idle frame and deferred slot, the freed
\* stacks and the tick count change.
ScheduleLeavesTable ==
  /\ [](rflagsIF = 1 /\ cpu \in Ctx /\ TICK_COUNT < MaxTick => ENABLED timer_isr)
  /\ [][TICK_COUNT' = TICK_COUNT + 1 =>
         /\ lock' = lock /\ PROCESS_TABLE' = PROCESS_TABLE
         /\ UNCHANGED <<SCHEDULER_ENABLED, idVars, execVars, queueVars>>
         /\ HasSched' = HasSched]_vars

\* A context was preempted while it held the process-table lock: the tick
\* made another thread current and the lock and the table are as they were.
ScheduleLeavesTableWitness ==
  /\ HasTable /\ Table # <<>> /\ TICK_COUNT > 0
  /\ \E c \in Ctx :
       /\ lock["PROCESS_TABLE"] = c /\ cpu \in Pids \ {c}
       /\ HasSched /\ IsSome(Sched.current) /\ Unwrap(Sched.current).pid = cpu

\* C35 (exit code is final): once an entry of the process table is
\* Terminated, its exit code is the same in every later state.  Violated.
ExitCodeFinal ==
  [][HasTable =>
       \A pid \in DOMAIN Table :
         Table[pid].state = "Terminated" =>
           Table'[pid].exit_code = Table[pid].exit_code]_vars

\* C36 (scheduler structure): between the scheduler's operations, every
\* thread pid occurs at most once in the current slot and the ready queue
\* together, no thread in the ready queue is Running, and the stack in the
\* deferred slot belongs to no thread in the current slot or the ready queue.
SchedulerStructure ==
  HasSched =>
    /\ \A i, j \in 1..Len(AllThreads) :
         AllThreads[i].pid = AllThreads[j].pid => i = j
    /\ \A i \in 1..Len(Sched.threads) : Sched.threads[i].state # Running
    /\ \A i \in 1..Len(AllThreads) :
         Sched.deferred_dealloc # Some(AllThreads[i].stack_bottom)

\* An exited thread's stack waits in the deferred slot, not yet freed, while
\* another thread is current and running on its own stack.
SchedulerStructureWitness ==
  /\ HasSched /\ IsSome(Sched.deferred_dealloc) /\ IsSome(Sched.current)
  /\ cpu = Unwrap(Sched.current).pid /\ Unwrap(Sched.current).state = Running
  /\ heap[Unwrap(Sched.deferred_dealloc)].frees = 0
  /\ ctx[Unwrap(Sched.deferred_dealloc)].pc = "ex_hlt"

\* Task id was spawned and is no longer in the executor's task map: its kill
\* was taken off the kill queue or its poll returned Ready and was recorded.
Gone(id) ==
  /\ HasTable /\ id \in DOMAIN Table /\ ~Table[id].is_thread
  /\ id \notin tasks /\ polling # id

\* C37 (stale ids): once a task is gone it stays gone and is not polled
\* again; its id is never added to the ready queue again, a stale id taken
\* off the wake queue or the ready queue being dropped; and its process entry
\* changes only by the terminate of its own kill being recorded.
StaleIdsSkipped ==
  [][\A id \in Pids :
       Gone(id) =>
         /\ Gone(id)'
         /\ Count(ready_queue', id) <= Count(ready_queue, id)
         /\ ctx[Idle].pc = "dw_pop" /\ WAKE_QUEUE # <<>> /\ Head(WAKE_QUEUE) = id
            /\ WAKE_QUEUE' # WAKE_QUEUE =>
              ready_queue' = ready_queue /\ ctx'[Idle].pc = "dw_pop"
         /\ ctx[Idle].pc = "pr_pop" /\ ready_queue # <<>> /\ Head(ready_queue) = id
            /\ ready_queue' # ready_queue =>
              polling' = 0 /\ ctx'[Idle].pc = "pr_pop"
         /\ ~(ctx[Idle].pc = "dk_term" /\ ctx[Idle].x = id) =>
              Table'[id] = Table[id]]_vars

\* The wake drain has just dropped the id of a task that woke itself and was
\* then killed.
StaleIdsSkippedWitness ==
  \E id \in Pids :
    /\ Gone(id) /\ ctx[Idle].pc = "dw_pop" /\ ctx[Idle].x = id
    /\ Table[id].exit_code = Some(1)

\* The executor is in poll_ready_tasks.
PollPhase == ctx[Idle].pc \in {"pr_pop", "pr_run", "run", "wk_push", "pr_term", "pr_blk"}
\* Polls of this call so far plus those its ready queue can still give.
PollBudget ==
  Len(ThisIteration) + Len(ready_queue) + (IF ctx[Idle].pc = "pr_run" THEN 1 ELSE 0)

\* C38 (run_until_idle terminates): every call of run_until_idle returns;
\* no poll of the call precedes its poll phase, during the poll phase the
\* ready queue never grows, a wake going to the wake queue, and the polls
\* made plus the ready-queue entries left never exceed what they were, so the
\* polls of one call are at most the ready queue's length when the poll phase
\* began.
RunUntilIdleTerminates ==
  /\ [][/\ ~PollPhase /\ PollPhase' => ThisIteration' = <<>>
        /\ PollPhase /\ PollPhase' =>
             /\ Len(ready_queue') <= Len(ready_queue)
             /\ PollBudget' <= PollBudget
        /\ PollPhase /\ WAKE_QUEUE' # WAKE_QUEUE =>
             WAKE_QUEUE' = Append(WAKE_QUEUE, polling) /\ ready_queue' = ready_queue]_vars
  /\ (ctx[Idle].pc # "test") ~> (ctx[Idle].pc = "test")

\* A call has returned after one poll of each of two tasks that woke
\* themselves: both are pending, their wakes wait for the next call.
RunUntilIdleTerminatesWitness ==
  /\ On(Idle, "test") /\ harness.calls = 1
  /\ harness.polled = <<1, 2>> /\ tasks = {1, 2}
  /\ harness.kind[1] = "yield" /\ harness.kind[2] = "yield"
  /\ WAKE_QUEUE = <<1, 2>> /\ ready_queue = <<>>

\* C40 (no resumption after Terminated): a thread that exit_current_thread
\* or kill_thread has marked Terminated, in the scheduler or, the mark once
\* recorded, in the process table, is not switched to by any later step.
\* Violated.
TerminatedNeverResumed ==
  [][\A pid \in Pids :
       (SchedTerminated(pid) \/ TableTerminated(pid)) /\ cpu # pid => cpu' # pid]_vars

\* The part of C40 that the code keeps: a thread that called
\* exit_current_thread and was marked Terminated by it is never switched to
\* once it has been preempted, so the call does not return.
ExitNeverReturns ==
  [][\A pid \in Pids :
       /\ Exited(pid) /\ cpu # pid => cpu' # pid
       /\ Exited(pid) => Exited(pid)']_vars

\* A thread was preempted between the two sections of exit_current_thread:
\* the scheduler has dropped it and another context has the CPU.
ExitNeverReturnsWitness ==
  \E pid \in Pids :
    /\ ctx[pid].pc = "ex_tbl" /\ cpu # pid /\ HasSched /\ ~Known(pid)
    /\ TICK_COUNT >= 2

\* Thread pid waits in the ready queue as Ready.
ReadyQueued(pid) ==
  /\ HasSched /\ InQueue(Sched.threads, pid)
  /\ Sched.threads[Pos(Sched.threads, pid)].state = Ready
\* Thread pid is the current thread and runs.
MadeCurrent(pid) ==
  /\ HasSched /\ Sched.current # None /\ Unwrap(Sched.current).pid = pid
  /\ Unwrap(Sched.current).state = Running /\ cpu = pid

\* C39 (no starvation): a schedule call makes a thread that is Ready in the
\* ready queue current or moves it nearer the head, leaving it Ready, and no
\* tick moves it back; so with ticks arriving, the scheduler enabled and its
\* lock free at each of them, a Ready thread at place k of the queue is
\* current within k ticks, whatever threads are Sleeping or Terminated
\* around it.
NoStarvation ==
  /\ [][ScheduleStep =>
         \A pid \in Pids :
           ReadyQueued(pid) =>
             \/ MadeCurrent(pid)'
             \/ /\ ReadyQueued(pid)'
                /\ Pos(Sched'.threads, pid) < Pos(Sched.threads, pid)]_vars
  /\ \A pid \in Pids :
       (/\ ReadyQueued(pid) /\ SCHEDULER_ENABLED /\ lock["SCHEDULER"] = Free
        /\ TICK_COUNT + Pos(Sched.threads, pid) <= MaxTick)
         ~> MadeCurrent(pid)

\* Thread c, which waited as Ready at the second place of the queue while
\* thread 1 was running, has been made current by the second tick; thread 1
\* and the thread that was ahead of c wait in their turn.
NoStarvationWitness ==
  /\ TICK_COUNT = 2 /\ HasSched
  /\ \E a, c \in Pids \ {1} :
       /\ a # c /\ MadeCurrent(c)
       /\ Len(Sched.threads) = 2
       /\ Sched.threads[1].pid = 1 /\ Sched.threads[1].state = Ready
       /\ Sched.threads[2].pid = a /\ Sched.threads[2].state = Ready

\* C31 (double fault on its own stack): the double-fault entry of the
\* loaded IDT names IST entry DOUBLE_FAULT_IST_INDEX; that entry of the
\* loaded TSS is the top of DOUBLE_FAULT_STACK; a call that overruns the boot
\* stack ends in double_fault_handler with its frame at the top of that
\* stack; and the CPU is never reset by a triple fault.
DoubleFaultOnIst ==
  /\ [](/\ IDT # None =>
             /\ Unwrap(IDT).double_fault.handler = "double_fault_handler"
             /\ Unwrap(IDT).double_fault.ist - 1 = DOUBLE_FAULT_IST_INDEX
        /\ TSS # None =>
             Unwrap(TSS).interrupt_stack_table[DOUBLE_FAULT_IST_INDEX]
               = DOUBLE_FAULT_STACK + STACK_SIZE
        /\ fault.pc # "reset"
        /\ fault.pc = "double_fault_handler" =>
             /\ DOUBLE_FAULT_STACK <= fault.rsp
             /\ fault.rsp < DOUBLE_FAULT_STACK + STACK_SIZE)
  /\ [][\A size \in FrameSizes :
          call(size) /\ ~Writable(fault.rsp, size, fault.low) =>
            /\ fault'.pc = "double_fault_handler"
            /\ fault'.rsp = DOUBLE_FAULT_STACK + STACK_SIZE - Pushed("double_fault")]_vars

\* Calls have nested until a frame did not fit in what was left of a boot
\* stack of two pages: double_fault_handler runs on DOUBLE_FAULT_STACK.
DoubleFaultOnIstWitness ==
  /\ fault.pc = "double_fault_handler" /\ fault.low = 1
  /\ Len(fault.calls) >= 2
  /\ fault.rsp = DOUBLE_FAULT_STACK + STACK_SIZE - Pushed("double_fault")
  /\ TSS # None /\ IDT # None

====
